---- MODULE Spec2Model ----
(***************************************************************************)
(* Gateway_github_2: the OpenAI-compatible proxy                           *)
(* (app/api/v1/routes_openai_proxy.py) and the gateway_ctx JSON-RPC tool   *)
(* with its process-local cache (app/api/v1/routes_gateway_ctx.py), and    *)
(* the summarizer (app/services/summarizer.py).                            *)
(*                                                                         *)
(* The specifications share the variables:                                 *)
(*   SpecSan     _sanitize_messages_for_upstream on bounded message lists  *)
(*   SpecStream  chat_completions, one request to /v1/chat/completions     *)
(*   Spec        _handle_jsonrpc tools/call handlers over the shared cache *)
(*   SpecRpc     gateway_ctx_mcp, one HTTP request to the JSON-RPC route   *)
(*   SpecKw      one tools/call seen from its keyword and text arguments   *)
(*   SpecPp      _score_and_rank_candidates on bounded candidate lists     *)
(*   SpecMj      _maybe_repair_mojibake_text on bounded texts              *)
(*   SpecSum     run_s4 and run_s60 over the messages and summary tables   *)
(* Strings whose content matters are sequences of characters or tokens.    *)
(***************************************************************************)
EXTENDS Integers, Sequences, FiniteSets, TLC

\* ---------------------------------------------------------------- bounds
MaxMsgs == 3
MaxLines == 3
\* tools/call requests started in one behaviour, and the clock's last tick
MaxCalls == 2
MaxTime == 2
\* messages in one JSON-RPC batch
MaxBatch == 2
\* characters of a keyword argument
MaxKw == 3
\* characters of a text given to the mojibake repair
MaxText == 3
\* user turns in the messages table, and rows in the two summary tables
MaxTurns == 2
MaxRows == 2
\* candidates in one scored list
MaxCands == 3
\* GATEWAY_CTX_CACHE_TTL, GATEWAY_CTX_CACHE_MAX and ANCHOR_SNIP_MAX, scaled down
CACHE_TTL_SECS == 1
MAX_CACHE_SIZE == 1
CTX_MAX == 2

VARIABLES
    \* _sanitize_messages_for_upstream
    san_in, san_out, san_pc,
    \* chat_completions (stream=true) and _proxy_stream_and_store
    req_msgs, has_tools, user_text, up_status, up_lines, pos, sent,
    full_parts, done, spc, persisted,
    \* chat_completions: the request, the upstream's answer to a stream=false
    \* call, and the HTTP response the route returns
    chat_req, up_json, http_resp,
    \* chat_completions and _proxy_stream_and_store: in program order, the DB
    \* sessions opened ("open") and closed ("close") and the awaits on the
    \* context builder ("wait_ctx") and on the upstream ("wait_upstream")
    db_log,
    \* _handle_jsonrpc tools/call: the module-level _cache (entries in dict
    \* order), the wall clock, each handler's locals, the calls started so far,
    \* what the call that completed last wrote to the cache, and the evictions
    \* so far
    cache, clock, hs, started, last, evictions,
    \* gateway_ctx_mcp, one HTTP request: its method, body and
    \* MCP-Protocol-Version header, the messages handled so far, the results
    \* collected, request.state.mcp_pv and the HTTP response
    rpc_req, rpc_i, rpc_results, rpc_pv, rpc_resp,
    \* one tools/call seen from its arguments: the keyword and text arguments,
    \* and _normalize_kw applied to the keyword once and twice
    kw_arg, kw_text, kw_norm, kw_pc,
    \* _score_and_rank_candidates: the candidates it is called with and the
    \* evidence it returns
    pp_in, pp_out, pp_pc,
    \* _maybe_repair_mojibake_text: the text it is called with (code points)
    \* and the text it returns
    mj_in, mj_out, mj_pc,
    \* run_s4 and run_s60: the messages table, the summaries_s4 and
    \* summaries_s60 tables (rows in insertion order) and the outcome of the
    \* call made last
    message_rows, summaries_s4, summaries_s60, sum_last,
    \* chat_completions and its call of the local gateway_ctx tool: the tool
    \* result the proxy received and the anchor block it built from it
    an_result, anchor_block, an_pc,
    \* two run_s4 / run_s60 calls in DB sessions of their own: where each call
    \* is, its arguments, the messages it loaded and its outcome
    callers

kwVars == <<kw_arg, kw_text, kw_norm, kw_pc>>
ppVars == <<pp_in, pp_out, pp_pc>>
mjVars == <<mj_in, mj_out, mj_pc>>
sumVars == <<message_rows, summaries_s4, summaries_s60, sum_last>>
anVars == <<an_result, anchor_block, an_pc>>
ccVars == <<callers>>
fnVars == <<kwVars, ppVars, mjVars, sumVars, anVars, ccVars>>
sanVars == <<san_in, san_out, san_pc>>
streamVars == <<req_msgs, has_tools, user_text, up_status, up_lines, pos, sent,
                full_parts, done, spc, persisted, chat_req, up_json, http_resp,
                db_log>>
rpcVars == <<rpc_req, rpc_i, rpc_results, rpc_pv, rpc_resp>>
gwVars == <<cache, clock, hs, started, last, evictions, rpcVars>>
vars == <<sanVars, fnVars, streamVars, gwVars>>

\* ------------------------------------------------------------ sequences
RECURSIVE SeqsUpTo(_, _)
SeqsUpTo(S, n) ==
    IF n = 0 THEN {<<>>}
    ELSE LET shorter == SeqsUpTo(S, n - 1)
         IN shorter \cup {Append(s, x) : s \in {t \in shorter : Len(t) = n - 1}, x \in S}

\* str.strip(): leading and trailing blanks removed
RECURSIVE LStrip(_)
LStrip(s) == IF s # <<>> /\ Head(s) = " " THEN LStrip(Tail(s)) ELSE s

RECURSIVE RStrip(_)
RStrip(s) ==
    IF s # <<>> /\ s[Len(s)] = " " THEN RStrip(SubSeq(s, 1, Len(s) - 1)) ELSE s

Strip(s) == RStrip(LStrip(s))

\* "".join(parts)
RECURSIVE Join(_)
Join(parts) == IF parts = <<>> THEN <<>> ELSE Head(parts) \o Join(Tail(parts))

\* ------------------------------------------------------------- messages
\* A chat message: dict says whether the list element is a JSON object at
\* all; tool_calls is present iff has_tc; ctype is the type of "content".
Msg(role, has_tc, tc, tcid, fc, ctype, content) ==
    [dict |-> TRUE, role |-> role, has_tc |-> has_tc, tc |-> tc, tcid |-> tcid,
     fc |-> fc, ctype |-> ctype, content |-> content]

NonDict ==
    [dict |-> FALSE, role |-> "", has_tc |-> FALSE, tc |-> <<>>, tcid |-> "",
     fc |-> FALSE, ctype |-> "none", content |-> <<>>]

UserMsg(c) == Msg("user", FALSE, <<>>, "", FALSE, "str", c)
UserObjMsg(c) == Msg("user", FALSE, <<>>, "", FALSE, "obj", c)
AsstMsg == Msg("assistant", FALSE, <<>>, "", FALSE, "str", <<"x">>)
AsstCalls(ids) == Msg("assistant", TRUE, ids, "", FALSE, "none", <<>>)
AsstFn(ctype, c) == Msg("assistant", FALSE, <<>>, "", TRUE, ctype, c)
ToolMsg(id) == Msg("tool", FALSE, <<>>, id, FALSE, "str", <<"r">>)
\* an assistant message with both tool_calls and function_call
AsstCallsFn(ids) == Msg("assistant", TRUE, ids, "", TRUE, "none", <<>>)
\* an assistant message whose "role" string has a space after the word
AsstCallsPadded(ids) == Msg("assistant ", TRUE, ids, "", FALSE, "none", <<>>)

\* (m.get("role") or "").strip(), on the role strings of the model
StripRole(role) == IF role = "assistant " THEN "assistant" ELSE role

SanMsgs ==
    { UserMsg(<<"h">>), AsstMsg, AsstCalls(<<"a", "b">>), AsstCalls(<<"a">>),
      AsstCalls(<<>>), AsstFn("none", <<>>), AsstFn("str", <<"x">>),
      ToolMsg("a"), ToolMsg("b"), NonDict, AsstCallsFn(<<"a">>),
      AsstCallsPadded(<<"a">>) }

\* strip_last_assistant_tool_fields: the "role" is compared as it is
RECURSIVE LastAssistant(_, _)
LastAssistant(cleaned, i) ==
    IF i = 0 THEN 0
    ELSE IF cleaned[i].role = "assistant" THEN i
    ELSE LastAssistant(cleaned, i - 1)

StripLastAssistantToolFields(cleaned) ==
    LET i == LastAssistant(cleaned, Len(cleaned))
    IN IF i = 0 THEN cleaned
       ELSE [cleaned EXCEPT ![i] = [@ EXCEPT !.has_tc = FALSE, !.tc = <<>>, !.fc = FALSE]]

\* the ids of an assistant's tool_calls: blank ids are left out
CallIds(tc) == {tc[i] : i \in {j \in 1..Len(tc) : tc[j] # ""}}

\* one pass of the for loop over a message, on st = [cleaned, pending]
SanitizeBody(st, m) ==
    IF ~m.dict THEN st
    ELSE LET role == StripRole(m.role) IN
    IF role = "tool" THEN
        IF m.tcid # "" /\ m.tcid \in st.pending
        THEN [cleaned |-> Append(st.cleaned, m), pending |-> st.pending \ {m.tcid}]
        ELSE st
    ELSE
        LET st1 == IF st.pending # {}
                   THEN [cleaned |-> StripLastAssistantToolFields(st.cleaned),
                         pending |-> {}]
                   ELSE st
        IN IF role = "assistant" /\ m.has_tc
           THEN [cleaned |-> Append(st1.cleaned, m), pending |-> CallIds(m.tc)]
           ELSE IF role = "assistant" /\ m.fc
           THEN IF m.ctype = "none" \/ (m.ctype = "str" /\ Strip(m.content) = <<>>)
                THEN st1
                ELSE [st1 EXCEPT !.cleaned = Append(st1.cleaned, m)]
           ELSE [st1 EXCEPT !.cleaned = Append(st1.cleaned, m)]

RECURSIVE SanitizeLoop(_, _)
SanitizeLoop(st, msgs) ==
    IF msgs = <<>> THEN st ELSE SanitizeLoop(SanitizeBody(st, Head(msgs)), Tail(msgs))

_sanitize_messages_for_upstream(messages) ==
    LET st == SanitizeLoop([cleaned |-> <<>>, pending |-> {}], messages)
    IN IF st.pending # {} THEN StripLastAssistantToolFields(st.cleaned) ELSE st.cleaned

\* _last_user_text: the content of the last user message, JSON-encoded
\* when it is not a string
RECURSIVE _last_user_text(_)
_last_user_text(messages) ==
    IF messages = <<>> THEN <<>>
    ELSE LET m == messages[Len(messages)]
         IN IF m.role = "user"
            THEN IF m.ctype = "str" THEN m.content ELSE <<"json">> \o m.content
            ELSE _last_user_text(SubSeq(messages, 1, Len(messages) - 1))

\* ------------------------------------------------- SpecSan: the sanitizer
SanInit ==
    /\ san_in \in SeqsUpTo(SanMsgs, MaxMsgs)
    /\ san_out = <<>>
    /\ san_pc = "call"

SanitizeCall ==
    /\ san_pc = "call"
    /\ san_out' = _sanitize_messages_for_upstream(san_in)
    /\ san_pc' = "done"
    /\ UNCHANGED <<san_in, fnVars, streamVars, gwVars>>

\* ---------------------------------------- chat_completions: the route
\* The request: whether payload["messages"] is a list, whether
\* UPSTREAM_API_KEY is set, the stream flag, and the identity the request
\* carries ("" is absent)
ChatReq(msgs_is_list, key_ok, stream, x_thread_id, x_session_id, x_memory_id) ==
    [msgs_is_list |-> msgs_is_list, key_ok |-> key_ok, stream |-> stream,
     x_thread_id |-> x_thread_id, x_session_id |-> x_session_id,
     x_memory_id |-> x_memory_id]

NoChatReq == ChatReq(TRUE, TRUE, TRUE, "", "", "")

ChatReqs ==
    { ChatReq(TRUE, TRUE, TRUE, "t", "s", "m"),
      ChatReq(TRUE, TRUE, TRUE, "", "s", ""),
      ChatReq(TRUE, TRUE, FALSE, "t", "", ""),
      ChatReq(FALSE, TRUE, TRUE, "t", "", ""),
      ChatReq(TRUE, FALSE, FALSE, "", "", "") }

\* _pick_str: the first value that is not blank, "" for None
RECURSIVE _pick_str(_)
_pick_str(values) ==
    IF values = <<>> THEN ""
    ELSE IF Head(values) # "" THEN Head(values)
    ELSE _pick_str(Tail(values))

\* _resolve_identity (metadata and the environment defaults are absent)
_resolve_identity(rq) ==
    LET picked == _pick_str(<<rq.x_thread_id, "", rq.x_session_id>>)
        thread_id == IF picked # "" THEN picked ELSE "generated"
        memory == _pick_str(<<rq.x_memory_id, "", "">>)
    IN [thread_id |-> thread_id,
        memory_id |-> IF memory # "" THEN memory ELSE thread_id,
        agent_id |-> "",
        s4_scope |-> "thread"]

\* the upstream's answer to a stream=false call: its content-type, and
\* choices[0] of its JSON body (message.content, and whether the message
\* carries tool_calls with finish_reason "tool_calls")
UpJson(ct_json, content, tool_calls) ==
    [ct_json |-> ct_json, content |-> content, tool_calls |-> tool_calls]

NoJson == UpJson(TRUE, <<>>, FALSE)

UpJsons ==
    { UpJson(TRUE, <<"a">>, FALSE), UpJson(TRUE, <<>>, FALSE),
      UpJson(TRUE, <<" ">>, TRUE), UpJson(FALSE, <<>>, FALSE) }

\* an HTTP response: headers is the set of <<name, value>> the route adds
HttpResp(status, kind, headers) ==
    [status |-> status, kind |-> kind, headers |-> headers]

NoResp == HttpResp(0, "none", {})

\* the six identity headers (header names are case-insensitive)
IdentityHeaders(identity) ==
    { <<"x-upstream-url", "url">>,
      <<"x-thread-id", identity.thread_id>>,
      <<"x-memory-id", identity.memory_id>>,
      <<"x-agent-id", identity.agent_id>>,
      <<"x-s4-scope", identity.s4_scope>>,
      <<"x-session-id", identity.thread_id>> }

\* _apply_tool_empty_content_compat, then choices[0].message.content or ""
AssistantText(body) ==
    IF body.tool_calls /\ Strip(body.content) = <<>>
    THEN <<"placeholder">> ELSE body.content

StreamIdle ==
    /\ req_msgs = <<>>
    /\ has_tools = FALSE
    /\ user_text = <<>>
    /\ up_status = 200
    /\ up_lines = <<>>
    /\ pos = 0
    /\ sent = <<>>
    /\ full_parts = <<>>
    /\ done = FALSE
    /\ spc = "off"
    /\ persisted = <<>>
    /\ chat_req = NoChatReq
    /\ up_json = NoJson
    /\ http_resp = NoResp
    /\ db_log = <<>>

SanIdle ==
    /\ san_in = <<>>
    /\ san_out = <<>>
    /\ san_pc = "off"

KwIdle ==
    /\ kw_arg = <<>>
    /\ kw_text = <<>>
    /\ kw_norm = <<>>
    /\ kw_pc = "off"

PpIdle ==
    /\ pp_in = <<>>
    /\ pp_out = <<>>
    /\ pp_pc = "off"

MjIdle ==
    /\ mj_in = <<>>
    /\ mj_out = <<>>
    /\ mj_pc = "off"

NoSummaryCall == [op |-> "off", outcome |-> "off", llm |-> "off", summary |-> <<>>]

SumIdle ==
    /\ message_rows = <<>>
    /\ summaries_s4 = <<>>
    /\ summaries_s60 = <<>>
    /\ sum_last = NoSummaryCall

AnIdle ==
    /\ an_result = <<>>
    /\ anchor_block = <<>>
    /\ an_pc = "off"

CcIdle == callers = <<>>

FnIdle == KwIdle /\ PpIdle /\ MjIdle /\ SumIdle /\ AnIdle /\ CcIdle


\* ------------------------------------------- SpecStream: streaming proxy
\* One line of the upstream body as r.aiter_lines() yields it (without its
\* line ending). kind "data" is "data: <json>" whose choices[0].delta.content
\* is piece (<<>>: absent, null or ""); "bad" is "data: <not json>"; "done" is
\* "data: [DONE]"; "comment" does not start with "data:"; "blank" is "".
DataLine(p) == [kind |-> "data", piece |-> p]
BadLine == [kind |-> "bad", piece |-> <<>>]
BlankLine == [kind |-> "blank", piece |-> <<>>]
CommentLine == [kind |-> "comment", piece |-> <<>>]
DoneLine == [kind |-> "done", piece |-> <<>>]
\* data: {"error": {..., "type": "upstream_error", "status": ...}}
ErrorLine == [kind |-> "error", piece |-> <<>>]

UpLines ==
    { DataLine(<<"a">>), DataLine(<<" ">>), DataLine(<<>>), BadLine, BlankLine,
      CommentLine, DoneLine }

Statuses == {200, 500}

\* the requests a streaming response is opened for: messages, and whether
\* the payload carries tools/functions
StreamReqs ==
    { [msgs |-> <<UserMsg(<<"h">>)>>, tools |-> FALSE],
      [msgs |-> <<UserMsg(<<"h">>), AsstCalls(<<"a">>), UserObjMsg(<<"i">>)>>,
       tools |-> FALSE],
      [msgs |-> <<AsstCalls(<<"a">>), ToolMsg("b")>>, tools |-> TRUE] }

StreamInit ==
    /\ chat_req \in ChatReqs
    /\ \E rq \in StreamReqs : req_msgs = rq.msgs /\ has_tools = rq.tools
    /\ user_text = <<>>
    /\ up_status \in Statuses
    /\ up_lines \in IF chat_req.msgs_is_list /\ chat_req.key_ok /\ chat_req.stream
                    THEN SeqsUpTo(UpLines, MaxLines) ELSE {<<>>}
    /\ up_json \in IF chat_req.msgs_is_list /\ chat_req.key_ok /\ ~chat_req.stream
                   THEN UpJsons ELSE {NoJson}
    /\ http_resp = NoResp
    /\ db_log = <<>>
    /\ pos = 0
    /\ sent = <<>>
    /\ full_parts = <<>>
    /\ done = FALSE
    /\ spc = "request"
    /\ persisted = <<>>

\* mutant of DbSession: the session is closed only when the work returns
DbSession_NoFinally(raises) == IF raises THEN <<"open">> ELSE <<"open", "close">>

\* db = get_db(); try: <work> finally: db.close() (lines 565-569, 521-535,
\* 669-683): the session is closed whether or not the work raises
DbSession(raises) == <<"open", "close">>

\* lines 565-587: the summaries are read in a session of their own, then the
\* local gateway_ctx tool is awaited
Prelude == DbSession(FALSE) \o <<"wait_ctx">>

\* chat_completions with stream=true: sanitize unless tools are declared,
\* take the last user text, hand the generator to StreamingResponse
ChatCompletionsStream ==
    /\ spc = "request"
    /\ chat_req.msgs_is_list /\ chat_req.key_ok /\ chat_req.stream
    /\ user_text' = _last_user_text(IF has_tools THEN req_msgs
                                    ELSE _sanitize_messages_for_upstream(req_msgs))
    /\ http_resp' = HttpResp(200, "event-stream",
                             IdentityHeaders(_resolve_identity(chat_req)))
    /\ spc' = "open"
    /\ db_log' = db_log \o Prelude
    /\ UNCHANGED <<chat_req, up_json, req_msgs, has_tools, up_status, up_lines, pos,
                   sent, full_parts, done, persisted, sanVars, fnVars, gwVars>>

\* lines 553-555: payload["messages"] is not a list
ChatRejectNotList ==
    /\ spc = "request"
    /\ ~chat_req.msgs_is_list
    /\ http_resp' = HttpResp(400, "json", {})
    /\ spc' = "responded"
    /\ UNCHANGED <<db_log, chat_req, up_json, req_msgs, has_tools, user_text, up_status,
                   up_lines, pos, sent, full_parts, done, persisted, sanVars, fnVars, gwVars>>

\* lines 600-603: _build_upstream_headers raises, UPSTREAM_API_KEY is empty
ChatMissingKey ==
    /\ spc = "request"
    /\ chat_req.msgs_is_list
    /\ ~chat_req.key_ok
    /\ user_text' = _last_user_text(IF has_tools THEN req_msgs
                                    ELSE _sanitize_messages_for_upstream(req_msgs))
    /\ http_resp' = HttpResp(500, "json", {})
    /\ spc' = "responded"
    /\ db_log' = db_log \o Prelude
    /\ UNCHANGED <<chat_req, up_json, req_msgs, has_tools, up_status, up_lines, pos,
                   sent, full_parts, done, persisted, sanVars, fnVars, gwVars>>

\* lines 565-587, 641: the summaries query, the local gateway_ctx call or the
\* upstream call (at says which) raises; nothing catches it and the framework
\* answers 500
ChatUnhandled(at) ==
    /\ spc = "request"
    /\ chat_req.msgs_is_list
    /\ at = "upstream" => (chat_req.key_ok /\ ~chat_req.stream)
    /\ db_log' = db_log \o (IF at = "summaries" THEN DbSession(TRUE)
                            ELSE IF at = "ctx" THEN Prelude
                            ELSE Prelude \o <<"wait_upstream">>)
    /\ user_text' = _last_user_text(IF has_tools THEN req_msgs
                                    ELSE _sanitize_messages_for_upstream(req_msgs))
    /\ http_resp' = HttpResp(500, "text", {})
    /\ spc' = "responded"
    /\ UNCHANGED <<chat_req, up_json, req_msgs, has_tools, up_status, up_lines, pos,
                   sent, full_parts, done, persisted, sanVars, fnVars, gwVars>>

\* lines 640-656: stream=false and the upstream answers with status >= 400
ChatUpstreamError ==
    /\ spc = "request"
    /\ chat_req.msgs_is_list /\ chat_req.key_ok /\ ~chat_req.stream
    /\ up_status >= 400
    /\ user_text' = _last_user_text(IF has_tools THEN req_msgs
                                    ELSE _sanitize_messages_for_upstream(req_msgs))
    /\ http_resp' = HttpResp(up_status, "json",
                             IdentityHeaders(_resolve_identity(chat_req)))
    /\ spc' = "responded"
    /\ db_log' = db_log \o (Prelude \o <<"wait_upstream">>)
    /\ UNCHANGED <<chat_req, up_json, req_msgs, has_tools, up_status, up_lines, pos,
                   sent, full_parts, done, persisted, sanVars, fnVars, gwVars>>

\* mutant of ChatJson: the status of the upstream's answer is not looked at
ChatJson_AnyStatus(ok) ==
    /\ spc = "request"
    /\ chat_req.msgs_is_list /\ chat_req.key_ok /\ ~chat_req.stream
    /\ LET text == _last_user_text(IF has_tools THEN req_msgs
                                   ELSE _sanitize_messages_for_upstream(req_msgs))
           assistant_text == AssistantText(up_json)
       IN /\ user_text' = text
          /\ IF assistant_text # <<>>
             THEN /\ persisted' = Append(persisted,
                        [user_text |-> text, assistant_text |-> assistant_text])
                  /\ http_resp' =
                        IF ok
                        THEN HttpResp(200, "json",
                                      IdentityHeaders(_resolve_identity(chat_req)))
                        ELSE HttpResp(500, "text", {})
             ELSE /\ UNCHANGED persisted
                  /\ http_resp' = HttpResp(200, "json",
                                           IdentityHeaders(_resolve_identity(chat_req)))
    /\ spc' = "responded"
    /\ db_log' = db_log \o (Prelude \o <<"wait_upstream">>
                         \o IF AssistantText(up_json) # <<>> THEN DbSession(~ok)
                            ELSE <<>>)
    /\ UNCHANGED <<chat_req, up_json, req_msgs, has_tools, up_status, up_lines, pos,
                   sent, full_parts, done, sanVars, fnVars, gwVars>>

\* lines 640-641, 658-694: stream=false and the upstream answers with status
\* < 400: the turn is persisted when the assistant text is non-empty (ok: the
\* call returns; otherwise it raises and the framework answers 500)
ChatJson(ok) ==
    /\ spc = "request"
    /\ chat_req.msgs_is_list /\ chat_req.key_ok /\ ~chat_req.stream
    /\ up_status < 400
    /\ LET text == _last_user_text(IF has_tools THEN req_msgs
                                   ELSE _sanitize_messages_for_upstream(req_msgs))
           assistant_text == AssistantText(up_json)
       IN /\ user_text' = text
          /\ IF assistant_text # <<>>
             THEN /\ persisted' = Append(persisted,
                        [user_text |-> text, assistant_text |-> assistant_text])
                  /\ http_resp' =
                        IF ok
                        THEN HttpResp(200, "json",
                                      IdentityHeaders(_resolve_identity(chat_req)))
                        ELSE HttpResp(500, "text", {})
             ELSE /\ UNCHANGED persisted
                  /\ http_resp' = HttpResp(200, "json",
                                           IdentityHeaders(_resolve_identity(chat_req)))
    /\ spc' = "responded"
    /\ db_log' = db_log \o (Prelude \o <<"wait_upstream">>
                         \o IF AssistantText(up_json) # <<>> THEN DbSession(~ok)
                            ELSE <<>>)
    /\ UNCHANGED <<chat_req, up_json, req_msgs, has_tools, up_status, up_lines, pos,
                   sent, full_parts, done, sanVars, fnVars, gwVars>>

\* status >= 400: first yield, the error frame "data: {...}\n\n"
StreamErrorFrame ==
    /\ spc = "open"
    /\ up_status >= 400
    /\ sent' = sent \o <<ErrorLine, BlankLine>>
    /\ spc' = "errdone"
    /\ db_log' = db_log \o <<"wait_upstream">>
    /\ UNCHANGED <<chat_req, up_json, http_resp, req_msgs, has_tools, user_text, up_status, up_lines, pos,
                   full_parts, done, persisted, sanVars, fnVars, gwVars>>

\* status >= 400: second yield "data: [DONE]\n\n", then return
StreamErrorDone ==
    /\ spc = "errdone"
    /\ sent' = sent \o <<DoneLine, BlankLine>>
    /\ spc' = "end"
    /\ UNCHANGED <<db_log, chat_req, up_json, http_resp, req_msgs, has_tools, user_text, up_status, up_lines, pos,
                   full_parts, done, persisted, sanVars, fnVars, gwVars>>

StreamOpenOk ==
    /\ spc = "open"
    /\ up_status < 400
    /\ spc' = "stream"
    /\ db_log' = db_log \o <<"wait_upstream">>
    /\ UNCHANGED <<chat_req, up_json, http_resp, req_msgs, has_tools, user_text, up_status, up_lines, pos, sent,
                   full_parts, done, persisted, sanVars, fnVars, gwVars>>

\* StreamLine with the yield moved after the parse: a data line whose payload
\* does not parse is not forwarded
StreamLine_DropsUnparsed ==
    /\ spc = "stream"
    /\ pos < Len(up_lines)
    /\ LET line == up_lines[pos + 1]
       IN /\ pos' = pos + 1
          /\ sent' = IF line.kind = "bad" THEN sent ELSE Append(sent, line)
          /\ IF line.kind = "done"
             THEN done' = TRUE /\ spc' = "post" /\ UNCHANGED full_parts
             ELSE /\ UNCHANGED <<done, spc>>
                  /\ IF line.kind = "data" /\ line.piece # <<>>
                     THEN full_parts' = Append(full_parts, line.piece)
                     ELSE UNCHANGED full_parts
    /\ db_log' = db_log \o <<"wait_upstream">>
    /\ UNCHANGED <<chat_req, up_json, http_resp, req_msgs, has_tools, user_text, up_status, up_lines, persisted,
                   sanVars, fnVars, gwVars>>

\* one pass of "async for line in r.aiter_lines()"
StreamLine ==
    /\ spc = "stream"
    /\ pos < Len(up_lines)
    /\ LET line == up_lines[pos + 1]
       IN /\ pos' = pos + 1
          /\ sent' = Append(sent, line)
          /\ IF line.kind = "done"
             THEN done' = TRUE /\ spc' = "post" /\ UNCHANGED full_parts
             ELSE /\ UNCHANGED <<done, spc>>
                  /\ IF line.kind = "data" /\ line.piece # <<>>
                     THEN full_parts' = Append(full_parts, line.piece)
                     ELSE UNCHANGED full_parts
    /\ db_log' = db_log \o <<"wait_upstream">>
    /\ UNCHANGED <<chat_req, up_json, http_resp, req_msgs, has_tools, user_text, up_status, up_lines, persisted,
                   sanVars, fnVars, gwVars>>

\* the upstream body ends without "data: [DONE]"
StreamEnd ==
    /\ spc = "stream"
    /\ pos = Len(up_lines)
    /\ spc' = "post"
    /\ db_log' = db_log \o <<"wait_upstream">>
    /\ UNCHANGED <<chat_req, up_json, http_resp, req_msgs, has_tools, user_text, up_status, up_lines, pos, sent,
                   full_parts, done, persisted, sanVars, fnVars, gwVars>>

\* reading the upstream raises (connection lost): the generator raises
UpstreamAbort ==
    /\ spc = "stream"
    /\ spc' = "failed"
    /\ db_log' = db_log \o <<"wait_upstream">>
    /\ UNCHANGED <<chat_req, up_json, http_resp, req_msgs, has_tools, user_text, up_status, up_lines, pos, sent,
                   full_parts, done, persisted, sanVars, fnVars, gwVars>>

\* the client goes away: the response task is cancelled at the generator's
\* current suspension point (a yield or an await); the generator has no
\* try/finally, so nothing after that point runs
ClientDisconnect ==
    /\ spc \in {"errdone", "stream", "post"}
    /\ spc' = "cancelled"
    /\ UNCHANGED <<db_log, chat_req, up_json, http_resp, req_msgs, has_tools, user_text, up_status, up_lines, pos, sent,
                   full_parts, done, persisted, sanVars, fnVars, gwVars>>

\* PersistTurn without the .strip()
PersistTurn_NoStrip(ok) ==
    /\ spc = "post"
    /\ LET full_text == Join(full_parts)
       IN IF full_text # <<>>
          THEN /\ persisted' = Append(persisted,
                     [user_text |-> user_text, assistant_text |-> full_text])
               /\ spc' = IF ok THEN "tail" ELSE "failed"
          ELSE /\ UNCHANGED persisted
               /\ spc' = "tail"
    /\ db_log' = db_log \o (IF Join(full_parts) # <<>> THEN DbSession(~ok)
                         ELSE <<>>)
    /\ UNCHANGED <<chat_req, up_json, http_resp, req_msgs, has_tools, user_text, up_status, up_lines, pos, sent,
                   full_parts, done, sanVars, fnVars, gwVars>>

\* after the loop: full_text = "".join(full_parts).strip(); persist if non-empty.
\* ok is whether append_user_and_assistant returns (TRUE) or raises (FALSE)
PersistTurn(ok) ==
    /\ spc = "post"
    /\ LET full_text == Strip(Join(full_parts))
       IN IF full_text # <<>>
          THEN /\ persisted' = Append(persisted,
                     [user_text |-> user_text, assistant_text |-> full_text])
               /\ spc' = IF ok THEN "tail" ELSE "failed"
          ELSE /\ UNCHANGED persisted
               /\ spc' = "tail"
    /\ db_log' = db_log \o (IF Strip(Join(full_parts)) # <<>> THEN DbSession(~ok)
                         ELSE <<>>)
    /\ UNCHANGED <<chat_req, up_json, http_resp, req_msgs, has_tools, user_text, up_status, up_lines, pos, sent,
                   full_parts, done, sanVars, fnVars, gwVars>>

\* StreamTail without the "if not done" test
StreamTail_Always ==
    /\ spc = "tail"
    /\ sent' = sent \o <<BlankLine, DoneLine, BlankLine>>
    /\ spc' = "end"
    /\ UNCHANGED <<db_log, chat_req, up_json, http_resp, req_msgs, has_tools, user_text, up_status, up_lines, pos,
                   full_parts, done, persisted, sanVars, fnVars, gwVars>>

\* if not done: yield "\ndata: [DONE]\n\n"; the generator ends
StreamTail ==
    /\ spc = "tail"
    /\ sent' = IF done THEN sent ELSE sent \o <<BlankLine, DoneLine, BlankLine>>
    /\ spc' = "end"
    /\ UNCHANGED <<db_log, chat_req, up_json, http_resp, req_msgs, has_tools, user_text, up_status, up_lines, pos,
                   full_parts, done, persisted, sanVars, fnVars, gwVars>>


\* --------------------------------------- Spec: tools/call and the cache
\* Users, keywords and texts are sequences of tokens; a token stands for one
\* character, except "||" (the two characters of the cache key separator),
\* the words of a text and the parts of the two fallback keywords.
SEP == "||"
RETRIEVAL_PROFILE_VERSION == "v1"
\* the emotional and the neutral fallback keyword (lines 685, 738)
FallbackEmo == <<"bro", ",", "cat">>
FallbackNeutral == <<"bro", ",", "coax">>
\* _EMO_MARKERS and _STOP_TOKENS, as words of a text
EmoMarkers == {"bro", "cat"}
StopTokens == {"bro", "cat"}
\* words that are runs of CJK characters, two or more long
CjkWords == {"bro", "cat", "w", "y"}
\* the characters _looks_garbled_keyword does not count
KwSeparators == {" ", ",", ";", "||", "/"}

RECURSIVE CountIn(_, _)
CountIn(s, S) ==
    IF s = <<>> THEN 0
    ELSE (IF Head(s) \in S THEN 1 ELSE 0) + CountIn(Tail(s), S)

\* str.split(sep)
RECURSIVE Split(_, _)
Split(s, sep) ==
    IF s = <<>> THEN << <<>> >>
    ELSE LET rest == Split(Tail(s), sep)
         IN IF Head(s) = sep THEN << <<>> >> \o rest
            ELSE << <<Head(s)>> \o Head(rest) >> \o Tail(rest)

\* sep.join(parts)
RECURSIVE JoinWith(_, _)
JoinWith(parts, sep) ==
    IF parts = <<>> THEN <<>>
    ELSE IF Len(parts) = 1 THEN Head(parts)
    ELSE Head(parts) \o <<sep>> \o JoinWith(Tail(parts), sep)

\* the first occurrences, in order
RECURSIVE Uniq(_, _)
Uniq(parts, seen) ==
    IF parts = <<>> THEN <<>>
    ELSE IF Head(parts) \in seen THEN Uniq(Tail(parts), seen)
    ELSE <<Head(parts)>> \o Uniq(Tail(parts), seen \cup {Head(parts)})

RECURSIVE MapStrip(_)
MapStrip(parts) ==
    IF parts = <<>> THEN <<>> ELSE <<Strip(Head(parts))>> \o MapStrip(Tail(parts))

NonEmptyPart(part) == part # <<>>

_looks_garbled_keyword(keyword) ==
    LET kw == Strip(keyword)
        q == CountIn(kw, {"?"})
        total == Len(kw) - CountIn(kw, KwSeparators)
    IN IF kw = <<>> THEN FALSE
       ELSE IF q = 0 THEN FALSE
       ELSE IF total <= 0 THEN TRUE
       ELSE 10 * q >= 4 * total

\* the first k = 2 distinct CJK words of the text that are no stop tokens
RECURSIVE DeriveCands(_, _)
DeriveCands(text, cands) ==
    IF text = <<>> \/ Len(cands) >= 2 THEN cands
    ELSE LET w == Head(text)
         IN IF w \in CjkWords /\ w \notin StopTokens
               /\ \A i \in 1..Len(cands) : cands[i] # <<w>>
            THEN DeriveCands(Tail(text), Append(cands, <<w>>))
            ELSE DeriveCands(Tail(text), cands)

_derive_kw_from_text(text) == JoinWith(DeriveCands(Strip(text), <<>>), ",")

_is_emo_chitchat(text) == \E i \in 1..Len(text) : text[i] \in EmoMarkers

\* mutant of _normalize_kw: repeated parts are kept
_normalize_kw_NoDedup(keyword) ==
    LET kw == Strip(keyword)
        unified == [i \in 1..Len(kw) |-> IF kw[i] = ";" THEN "," ELSE kw[i]]
        parts == SelectSeq(MapStrip(Split(unified, ",")), NonEmptyPart)
    IN IF kw = <<>> THEN <<>> ELSE JoinWith(parts, ",")

\* lines 540-555 (";" stands for each of the separators that are unified to ",")
_normalize_kw(keyword) ==
    LET kw == Strip(keyword)
        unified == [i \in 1..Len(kw) |-> IF kw[i] = ";" THEN "," ELSE kw[i]]
        parts == SelectSeq(MapStrip(Split(unified, ",")), NonEmptyPart)
    IN IF kw = <<>> THEN <<>> ELSE JoinWith(Uniq(parts, {}), ",")

\* mutant of ResolveKeyword: a keyword derived from the text comes first
ResolveKeyword_TextFirst(keyword_arg, text_arg) ==
    LET keyword == Strip(keyword_arg)
        text == Strip(text_arg)
        derived == _derive_kw_from_text(text)
        k1 == IF derived # <<>> THEN derived
              ELSE IF _looks_garbled_keyword(keyword) THEN <<>>
              ELSE keyword
        k2 == IF k1 = <<>>
              THEN (IF _is_emo_chitchat(text) THEN FallbackEmo ELSE FallbackNeutral)
              ELSE k1
    IN _normalize_kw(k2)

\* lines 657-689: the primary keyword of a tools/call
ResolveKeyword(keyword_arg, text_arg) ==
    LET keyword == Strip(keyword_arg)
        text == Strip(text_arg)
        k1 == IF keyword = <<>> \/ _looks_garbled_keyword(keyword)
              THEN _derive_kw_from_text(text)
              ELSE keyword
        k2 == IF k1 = <<>>
              THEN (IF _is_emo_chitchat(text) THEN FallbackEmo ELSE FallbackNeutral)
              ELSE k1
    IN _normalize_kw(k2)

\* f"{user}||{primary_keyword}||{RETRIEVAL_PROFILE_VERSION}"
CacheKey(user, keyword) ==
    user \o <<SEP>> \o keyword \o <<SEP>> \o <<RETRIEVAL_PROFILE_VERSION>>

\* _cache.get(cache_key): the entry's place in the dict, 0 for None
CacheIndex(c, key) ==
    IF \E i \in 1..Len(c) : c[i].key = key
    THEN CHOOSE i \in 1..Len(c) : c[i].key = key
    ELSE 0

StartsWith(s, prefix) == Len(prefix) <= Len(s) /\ SubSeq(s, 1, Len(prefix)) = prefix

_has_cache_for_other_profile(c, user, keyword, profile_version) ==
    LET prefix == user \o <<SEP>> \o keyword \o <<SEP>>
        legacy_key == user \o <<SEP>> \o keyword
    IN \E i \in 1..Len(c) :
        \/ c[i].key = legacy_key
        \/ /\ StartsWith(c[i].key, prefix)
           /\ LET other_profile == SubSeq(c[i].key, Len(prefix) + 1, Len(c[i].key))
              IN other_profile # <<>> /\ other_profile # <<profile_version>>

\* mutant of CachePut: the entry is stored without its snippet
CachePut_Torn(c, entry) ==
    LET torn == [entry EXCEPT !.ctx = <<>>]
        i == CacheIndex(c, torn.key)
    IN IF i = 0 THEN Append(c, torn) ELSE [c EXCEPT ![i] = torn]

\* _cache[cache_key] = (...): an existing key keeps its place in the dict
CachePut(c, entry) ==
    LET i == CacheIndex(c, entry.key)
    IN IF i = 0 THEN Append(c, entry) ELSE [c EXCEPT ![i] = entry]

\* mutant of OldestIndex: of the entries of the smallest stored-at, the last
OldestIndex_LastTie(c) ==
    CHOOSE i \in 1..Len(c) :
        /\ \A j \in 1..Len(c) : c[i].t <= c[j].t
        /\ \A j \in (i + 1)..Len(c) : c[j].t > c[i].t

\* mutant of OldestIndex: the entry written last is the one removed
OldestIndex_Last(c) == Len(c)

\* min(_cache.items(), key=stored-at): the first entry of the smallest stored-at
OldestIndex(c) ==
    CHOOSE i \in 1..Len(c) :
        /\ \A j \in 1..Len(c) : c[i].t <= c[j].t
        /\ \A j \in 1..(i - 1) : c[j].t > c[i].t

RemoveAt(c, i) == SubSeq(c, 1, i - 1) \o SubSeq(c, i + 1, Len(c))

\* lines 799-801
EvictOldestIfOverCap(c) ==
    IF Len(c) > MAX_CACHE_SIZE THEN RemoveAt(c, OldestIndex(c)) ELSE c

\* _truncate_ctx ("\r" does not occur in the modelled snippets)
_truncate_ctx(text) ==
    LET t == Strip(text)
    IN IF t = <<>> THEN <<>>
       ELSE IF Len(t) <= CTX_MAX THEN t
       ELSE RStrip(SubSeq(t, 1, CTX_MAX)) \o <<"...">>

\* _extract_outputs and line 726: result, else chat_text
Picked(outs) ==
    IF Strip(outs.result) # <<>> THEN Strip(outs.result) ELSE Strip(outs.chat_text)

\* what the RAG workflow may answer: nothing but blanks, or no result but a
\* long chat_text and a vector candidate
RagResponses ==
    { [result |-> <<" ">>, chat_text |-> <<>>, vec |-> 0],
      [result |-> <<>>, chat_text |-> <<"t", "t", "t", "t">>, vec |-> 1] }

NoOuts == [result |-> <<>>, chat_text |-> <<>>, vec |-> 0]

EvidenceItem(source_type, source_id, text) ==
    [source_type |-> source_type, source_id |-> source_id, text |-> text]

\* lines 756-770: the keyword hit, the fallback hit and the vector candidates
\* (scoring and ranking keep this order; degraded: the vector adaptation raised
\* and was swallowed)
BuildEvidence(primary_keyword, primary_text, fallback_keyword, fallback_text, outs, degraded) ==
    (IF primary_text # <<>>
     THEN <<EvidenceItem("keyword", primary_keyword, primary_text)>> ELSE <<>>)
    \o (IF fallback_text # <<>>
        THEN <<EvidenceItem("fallback", fallback_keyword, fallback_text)>> ELSE <<>>)
    \o (IF outs.vec > 0 /\ ~degraded
        THEN <<EvidenceItem("vector", <<"doc">>, <<"v">>)>> ELSE <<>>)

\* res_obj with the _debug_fields merged in
ResObj(keyword, keyword_primary, keyword_used, ctx, evidence, cache_hit, cache_miss_reason, error) ==
    [keyword |-> keyword, keyword_primary |-> keyword_primary,
     keyword_used |-> keyword_used, ctx |-> ctx, evidence |-> evidence,
     cache_hit |-> cache_hit, cache_miss_reason |-> cache_miss_reason,
     error |-> error]

NoRes == ResObj(<<>>, <<>>, <<>>, <<>>, <<>>, FALSE, "", <<>>)

\* _mcp_wrap_text
_mcp_wrap_text(res_obj, text_out, is_error) ==
    [text |-> text_out, isError |-> is_error, data |-> res_obj]

NoOut == _mcp_wrap_text(NoRes, <<>>, FALSE)

\* return None if is_notification else _jsonrpc_result(_id, ...)
Returned(notif) == IF notif THEN "none" ELSE "result"

Handlers == {1, 2}

\* A handler's locals: rag is the log of its _call_dify_anchor calls, exc the
\* exception its except branch caught, out and returned what it returns.
IdleHandler ==
    [pc |-> "idle", user |-> <<>>, text |-> <<>>, keyword |-> <<>>,
     notif |-> FALSE, reason |-> "", rag |-> <<>>, primary_hit_text |-> <<>>,
     exc |-> <<>>, out |-> NoOut, returned |-> ""]

\* what a completed call wrote to the cache (wrote = FALSE: nothing)
NoWrite ==
    [wrote |-> FALSE, user |-> <<>>, keyword |-> <<>>, t |-> 0, ctx |-> <<>>,
     evidence |-> <<>>]

\* the tools/call messages of the model; notif: the message has no "id"
Requests ==
    { [user |-> <<"a">>, keyword |-> <<"k">>, text |-> <<>>, notif |-> FALSE],
      [user |-> <<"a">>, keyword |-> <<"k">>, text |-> <<>>, notif |-> TRUE],
      [user |-> <<"a">>, keyword |-> <<>>, text |-> <<"bro">>, notif |-> FALSE],
      [user |-> <<"a", "||", "k">>, keyword |-> <<"?", "?">>, text |-> <<"w">>,
       notif |-> FALSE] }

GwInit ==
    /\ cache = <<>>
    /\ clock = 0
    /\ hs = [h \in Handlers |-> IdleHandler]
    /\ started = 0
    /\ last = NoWrite
    /\ evictions = 0

\* ------------------------------------------ gateway_ctx_mcp: JSON-RPC
SUPPORTED_VERSIONS ==
    {"2025-11-25", "2025-06-18", "2025-03-26", "2024-11-05", "2024-10-07"}
DEFAULT_MCP_PROTOCOL_VERSION == "2025-06-18"

\* default_pv (line 831) and the last line of _negotiate_protocol_version
DefaultPv ==
    IF DEFAULT_MCP_PROTOCOL_VERSION \in SUPPORTED_VERSIONS
    THEN DEFAULT_MCP_PROTOCOL_VERSION ELSE "2025-06-18"

\* _negotiate_protocol_version: pv is params.protocolVersion, hv the
\* MCP-Protocol-Version request header ("" is absent)
_negotiate_protocol_version(pv, hv) ==
    IF pv # "" /\ pv \in SUPPORTED_VERSIONS THEN pv
    ELSE IF hv # "" /\ hv \in SUPPORTED_VERSIONS THEN hv
    ELSE DefaultPv

\* One element of a request body. dict: it is a JSON object; has_id: it has
\* an "id" member; name_ok: params.name is "gateway_ctx"; pv:
\* params.protocolVersion; args: params.arguments of a tools/call
RpcMsg(dict, has_id, method, name_ok, pv, args) ==
    [dict |-> dict, has_id |-> has_id, method |-> method, name_ok |-> name_ok,
     pv |-> pv, args |-> args]

NoArgs == [user |-> <<>>, keyword |-> <<>>, text |-> <<>>]
ArgsK == [user |-> <<"a">>, keyword |-> <<"k">>, text |-> <<>>]

\* {}: what a single body that is no JSON object is handled as (line 856)
EmptyMsg == RpcMsg(TRUE, FALSE, "", FALSE, "", NoArgs)

RpcMsgs ==
    { RpcMsg(TRUE, TRUE, "initialize", FALSE, "2025-03-26", NoArgs),
      RpcMsg(TRUE, TRUE, "initialize", FALSE, "1999-01-01", NoArgs),
      RpcMsg(TRUE, FALSE, "initialize", FALSE, "", NoArgs),
      RpcMsg(TRUE, TRUE, "tools/list", FALSE, "", NoArgs),
      RpcMsg(TRUE, FALSE, "tools/list", FALSE, "", NoArgs),
      RpcMsg(TRUE, TRUE, "resources/list", FALSE, "", NoArgs),
      RpcMsg(TRUE, FALSE, "resources/list", FALSE, "", NoArgs),
      RpcMsg(TRUE, TRUE, "tools/call", FALSE, "", ArgsK),
      RpcMsg(TRUE, FALSE, "tools/call", FALSE, "", ArgsK),
      RpcMsg(TRUE, TRUE, "tools/call", TRUE, "", ArgsK),
      RpcMsg(TRUE, FALSE, "tools/call", TRUE, "", ArgsK),
      RpcMsg(FALSE, FALSE, "", FALSE, "", NoArgs) }

\* An HTTP request to /gateway_ctx. kind: "get" (GET or OPTIONS), "garbage"
\* (a POST whose body is not JSON), "single" or "batch" (a JSON list)
RpcReq(kind, msgs, hv) == [kind |-> kind, msgs |-> msgs, hv |-> hv]

RpcHeaders == {"", "2024-11-05", "1999-01-01"}

RpcReqs ==
    {RpcReq(k, <<>>, hv) : k \in {"get", "garbage"}, hv \in RpcHeaders}
    \cup {RpcReq("single", <<m>>, hv) : m \in RpcMsgs, hv \in RpcHeaders}
    \cup {RpcReq("batch", ms, hv) : ms \in SeqsUpTo(RpcMsgs, MaxBatch),
                                    hv \in RpcHeaders}

\* one element of the response: a JSON-RPC result or error. idx is the place
\* of its message in the body, pv the protocolVersion of an initialize result,
\* out the tool result of a tools/call
RpcElem(idx, kind, code, what, pv, out) ==
    [idx |-> idx, kind |-> kind, code |-> code, what |-> what, pv |-> pv,
     out |-> out]

_jsonrpc_result(idx, what, pv, out) == RpcElem(idx, "result", 0, what, pv, out)
\* mutant of _jsonrpc_error: the error is wrapped as a result
_jsonrpc_error_AsResult(idx, code) == RpcElem(idx, "result", code, "", "", NoOut)

_jsonrpc_error(idx, code) == RpcElem(idx, "error", code, "", "", NoOut)

\* the HTTP response of /gateway_ctx: body is "none", "object" or "array"
RpcResp(status, body, elems, header_pv) ==
    [status |-> status, body |-> body, elems |-> elems, header_pv |-> header_pv]

NoRpcResp == RpcResp(0, "none", <<>>, "")

\* the messages _handle_jsonrpc is called with or the loop passes over
RpcMessages(req) ==
    IF req.kind = "batch" THEN req.msgs
    ELSE IF req.kind = "single"
    THEN (IF req.msgs[1].dict THEN req.msgs ELSE <<EmptyMsg>>)
    ELSE <<>>

\* the message is a tools/call of the tool gateway_ctx
IsGatewayCall(msg) == msg.dict /\ msg.method = "tools/call" /\ msg.name_ok

\* mutant of HandleOther: a notification is answered like a request
HandleOther_AnswersNotifications(msg, idx, pv) ==
    IF msg.method = "initialize"
    THEN <<_jsonrpc_result(idx, "initialize", pv, NoOut)>>
    ELSE IF msg.method = "tools/list"
    THEN <<_jsonrpc_result(idx, "tools/list", "", NoOut)>>
    ELSE <<_jsonrpc_error(idx, -32601)>>

\* lines 612-655: what _handle_jsonrpc returns for a message that is no
\* tools/call of gateway_ctx; <<>> is None
HandleOther(msg, idx, pv) ==
    IF ~msg.has_id THEN <<>>
    ELSE IF msg.method = "initialize"
    THEN <<_jsonrpc_result(idx, "initialize", pv, NoOut)>>
    ELSE IF msg.method = "tools/list"
    THEN <<_jsonrpc_result(idx, "tools/list", "", NoOut)>>
    ELSE <<_jsonrpc_error(idx, -32601)>>

RpcIdle ==
    /\ rpc_req = RpcReq("get", <<>>, "")
    /\ rpc_i = 0
    /\ rpc_results = <<>>
    /\ rpc_pv = ""
    /\ rpc_resp = NoRpcResp

RpcInit ==
    /\ rpc_req \in RpcReqs
    /\ rpc_i = 0
    /\ rpc_results = <<>>
    /\ rpc_pv = ""
    /\ rpc_resp = NoRpcResp

GwIdle ==
    /\ cache = <<>>
    /\ clock = 0
    /\ hs = <<>>
    /\ started = 0
    /\ last = NoWrite
    /\ evictions = 0
    /\ RpcIdle

\* no handler is in the act of returning
Quiet == \A h \in Handlers : hs[h].pc # "done"

\* time passes
Tick ==
    /\ Quiet
    /\ clock < MaxTime
    /\ clock' = clock + 1
    /\ UNCHANGED <<cache, hs, started, last, evictions, sanVars, fnVars, streamVars, rpcVars>>

\* a call to _call_dify_anchor, as the handler's log of RAG calls shows it
RagCall(keyword) ==
    [kw |-> keyword, st |-> "pending", result |-> <<>>, chat_text |-> <<>>, vec |-> 0]

RagDone(call, st, outs) ==
    [call EXCEPT !.st = st, !.result = outs.result, !.chat_text = outs.chat_text,
                 !.vec = outs.vec]

\* mutant of TtlFresh: an entry of age TTL is stale already
TtlFresh_Strict(now, stored_at) == now - stored_at < CACHE_TTL_SECS

\* now - hit[0] <= CACHE_TTL_SECS
TtlFresh(now, stored_at) == now - stored_at <= CACHE_TTL_SECS

\* mutant of HitResObj: the hit answers without the cached evidence
HitResObj_DropsEvidence(res, primary_keyword, cache_miss_reason) ==
    [res EXCEPT !.cache_hit = TRUE,
                !.cache_miss_reason = cache_miss_reason,
                !.keyword_primary = primary_keyword,
                !.keyword_used = IF res.keyword # <<>> THEN res.keyword
                                 ELSE primary_keyword,
                !.evidence = <<>>]

\* lines 704-714: the cached res_obj with the debug fields of the hit merged in
HitResObj(res, primary_keyword, cache_miss_reason) ==
    [res EXCEPT !.cache_hit = TRUE,
                !.cache_miss_reason = cache_miss_reason,
                !.keyword_primary = primary_keyword,
                !.keyword_used = IF res.keyword # <<>> THEN res.keyword
                                 ELSE primary_keyword]

\* mutant of HitEntry: a hit moves the entry's stored-at forward
HitEntry_Touch(hit, res_obj) == [hit EXCEPT !.res = res_obj, !.t = @ + 1]

\* lines 702-712: the hit entry after the hit; res_obj.update changes the
\* cached dict in place, hit[0] and hit[1] are only read
HitEntry(hit, res_obj) == [hit EXCEPT !.res = res_obj]

\* mutant of NeedsFallback: the fallback keyword is tried even when it is the
\* primary keyword
NeedsFallback_SameKeywordToo(ctx, fallback_keyword, primary_keyword) ==
    ctx = <<>> /\ fallback_keyword # <<>>

\* lines 737-740: the primary snippet is empty and the fallback keyword is
\* another keyword
NeedsFallback(ctx, fallback_keyword, primary_keyword) ==
    ctx = <<>> /\ fallback_keyword # <<>> /\ fallback_keyword # primary_keyword

\* the handler returns H.out (None for a notification); written is what it
\* wrote to the cache
Return(h, H, written) ==
    /\ hs' = [hs EXCEPT ![h] = [H EXCEPT !.pc = "done",
                                         !.returned = Returned(H.notif)]]
    /\ last' = written

\* requests are taken by the first free handler
FirstFree(h) == hs[h].pc = "idle" /\ \A g \in Handlers : g < h => hs[g].pc # "idle"

\* lines 612-722: from the entry of _handle_jsonrpc to the return of a fresh
\* hit, or to the await of the first RAG call
Start(h, rq) ==
    /\ Quiet
    /\ FirstFree(h)
    /\ started < MaxCalls
    /\ started' = started + 1
    /\ LET text == Strip(rq.text)
           user == Strip(IF rq.user = <<>> THEN <<"mcp">> ELSE rq.user)
           primary_keyword == ResolveKeyword(rq.keyword, rq.text)
           cache_key == CacheKey(user, primary_keyword)
           now == clock
           i == CacheIndex(cache, cache_key)
           reason0 == IF _has_cache_for_other_profile(cache, user, primary_keyword,
                                                      RETRIEVAL_PROFILE_VERSION)
                      THEN "profile_changed" ELSE "not_found"
           cache_miss_reason ==
               IF i # 0
               THEN (IF ~TtlFresh(now, cache[i].t) THEN "expired" ELSE "bypassed")
               ELSE reason0
           H == [IdleHandler EXCEPT !.user = user, !.text = text,
                                    !.keyword = primary_keyword,
                                    !.notif = rq.notif,
                                    !.reason = cache_miss_reason]
       IN IF i # 0 /\ TtlFresh(now, cache[i].t)
          THEN LET res_obj == HitResObj(cache[i].res, primary_keyword,
                                        cache_miss_reason)
               IN /\ cache' = [cache EXCEPT ![i] = HitEntry(cache[i], res_obj)]
                  /\ Return(h, [H EXCEPT !.out = _mcp_wrap_text(res_obj, cache[i].ctx,
                                                                FALSE)], NoWrite)
          ELSE /\ hs' = [hs EXCEPT ![h] =
                           [H EXCEPT !.pc = "primary",
                                     !.rag = <<RagCall(primary_keyword)>>]]
               /\ UNCHANGED <<cache, last>>
    /\ UNCHANGED <<clock, evictions, sanVars, fnVars, streamVars, rpcVars>>

\* mutant of ErrorResult: the exception is answered as a success
ErrorResult_AsSuccess(h, H, e) ==
    LET res_obj == ResObj(H.keyword, H.keyword, H.keyword, <<>>, <<>>, FALSE,
                          H.reason, e)
    IN /\ Return(h, [H EXCEPT !.exc = e, !.out = _mcp_wrap_text(res_obj, e, FALSE)],
                 NoWrite)
       /\ UNCHANGED <<cache, evictions>>

\* lines 807-826: the except branch
ErrorResult(h, H, e) ==
    LET res_obj == ResObj(H.keyword, H.keyword, H.keyword, <<>>, <<>>, FALSE,
                          H.reason, e)
    IN /\ Return(h, [H EXCEPT !.exc = e, !.out = _mcp_wrap_text(res_obj, e, TRUE)],
                 NoWrite)
       /\ UNCHANGED <<cache, evictions>>

\* lines 756-805: evidence, res_obj, the cache write with its eviction, the
\* return. fin is how scoring and assembly end: "ok", "degraded" (the vector
\* adaptation raised and was swallowed) or "raise"
Finish(h, H, ctx, used_keyword, outs, fallback_keyword, fallback_hit_text, fin) ==
    IF fin = "raise"
    THEN ErrorResult(h, H, <<"ScoringError">>)
    ELSE LET evidence == BuildEvidence(H.keyword, H.primary_hit_text, fallback_keyword,
                                       fallback_hit_text, outs, fin = "degraded")
             res_obj == ResObj(used_keyword, H.keyword, used_keyword, ctx, evidence,
                               FALSE, H.reason, <<>>)
             \* by: the user and keyword the key was built from (history only)
             entry == [key |-> CacheKey(H.user, H.keyword), t |-> clock, ctx |-> ctx,
                       res |-> res_obj, by |-> <<H.user, H.keyword>>]
             written == CachePut(cache, entry)
         IN /\ cache' = EvictOldestIfOverCap(written)
            /\ evictions' = IF Len(written) > MAX_CACHE_SIZE
                            THEN evictions + 1 ELSE evictions
            /\ Return(h, [H EXCEPT !.out = _mcp_wrap_text(res_obj, ctx, FALSE)],
                      [wrote |-> TRUE, user |-> H.user, keyword |-> H.keyword,
                       t |-> clock, ctx |-> ctx, evidence |-> evidence])

FinishKinds == {"ok", "degraded", "raise"}

\* line 738
FallbackKeyword(text) ==
    _normalize_kw(IF _is_emo_chitchat(text) THEN FallbackEmo ELSE FallbackNeutral)

\* lines 722-740, 756-805: the primary RAG call returns and no second call
\* follows
PrimaryReturns(h, outs, fin) ==
    /\ Quiet
    /\ hs[h].pc = "primary"
    /\ LET ctx == _truncate_ctx(Picked(outs))
           H == [hs[h] EXCEPT !.rag[1] = RagDone(@, "ok", outs),
                              !.primary_hit_text = ctx]
           fallback_keyword == IF ctx = <<>> THEN FallbackKeyword(H.text) ELSE <<>>
       IN /\ ~NeedsFallback(ctx, fallback_keyword, H.keyword)
          /\ Finish(h, H, ctx, H.keyword, outs, fallback_keyword, <<>>, fin)
    /\ UNCHANGED <<clock, started, sanVars, fnVars, streamVars, rpcVars>>

\* lines 722-744: the primary snippet is empty and the fallback keyword is
\* another one: the second RAG call is awaited
PrimaryEmpty(h, outs) ==
    /\ Quiet
    /\ hs[h].pc = "primary"
    /\ LET ctx == _truncate_ctx(Picked(outs))
           fallback_keyword == FallbackKeyword(hs[h].text)
       IN /\ NeedsFallback(ctx, fallback_keyword, hs[h].keyword)
          /\ hs' = [hs EXCEPT ![h] =
                      [@ EXCEPT !.pc = "fallback",
                                !.rag = <<RagDone(@[1], "ok", outs),
                                          RagCall(fallback_keyword)>>,
                                !.primary_hit_text = ctx]]
    /\ UNCHANGED <<cache, clock, started, last, evictions, sanVars, fnVars, streamVars, rpcVars>>

\* lines 744-805: the fallback RAG call returns
FallbackReturns(h, outs2, fin) ==
    /\ Quiet
    /\ hs[h].pc = "fallback"
    /\ LET ctx2 == _truncate_ctx(Picked(outs2))
           outs == [result |-> hs[h].rag[1].result,
                    chat_text |-> hs[h].rag[1].chat_text, vec |-> hs[h].rag[1].vec]
           H == [hs[h] EXCEPT !.rag[2] = RagDone(@, "ok", outs2)]
           fallback_keyword == H.rag[2].kw
       IN IF ctx2 # <<>>
          THEN Finish(h, H, ctx2, fallback_keyword, outs2, fallback_keyword, ctx2, fin)
          ELSE Finish(h, H, <<>>, H.keyword, outs, fallback_keyword, <<>>, fin)
    /\ UNCHANGED <<clock, started, sanVars, fnVars, streamVars, rpcVars>>

\* what _call_dify_anchor raises: the RuntimeError of lines 573-574 (DIFY_API_KEY
\* is empty, so the first call raises it already), or an error of the HTTP call
MissingKey == <<"MissingKey">>
RagErrors == {MissingKey, <<"RagError">>}

\* _call_dify_anchor raises (missing key, timeout, status >= 400): line 807
RagRaises(h, e) ==
    /\ Quiet
    /\ hs[h].pc \in {"primary", "fallback"}
    /\ e = MissingKey => hs[h].pc = "primary"
    /\ LET n == Len(hs[h].rag)
           H == [hs[h] EXCEPT !.rag[n] = RagDone(@, "raise", NoOuts)]
       IN ErrorResult(h, H, e)
    /\ UNCHANGED <<clock, started, sanVars, fnVars, streamVars, rpcVars>>

\* the response has been sent: the handler is free for the next request
Retire(h) ==
    /\ hs[h].pc = "done"
    /\ hs' = [hs EXCEPT ![h] = IdleHandler]
    /\ UNCHANGED <<cache, clock, started, last, evictions, sanVars, fnVars, streamVars, rpcVars>>

Init == GwInit /\ SanIdle /\ FnIdle /\ StreamIdle /\ RpcIdle
Next ==
    \/ Tick
    \/ \E h \in Handlers, rq \in Requests : Start(h, rq)
    \/ \E h \in Handlers, outs \in RagResponses, fin \in FinishKinds :
           PrimaryReturns(h, outs, fin)
    \/ \E h \in Handlers, outs \in RagResponses : PrimaryEmpty(h, outs)
    \/ \E h \in Handlers, outs \in RagResponses, fin \in FinishKinds :
           FallbackReturns(h, outs, fin)
    \/ \E h \in Handlers, e \in RagErrors : RagRaises(h, e)
    \/ \E h \in Handlers : Retire(h)
Spec == Init /\ [][Next]_vars

\* ------------- SpecAn: chat_completions calls the local gateway_ctx tool
\* routes_openai_proxy.py lines 386-394: the text of the first content item of
\* the JSON-RPC result, stripped; isError is not read
_call_local_gateway_ctx(result) == Strip(result.text)

\* routes_openai_proxy.py lines 396-405
_build_anchor_system_block(snippet) ==
    IF Strip(snippet) = <<>> THEN <<>>
    ELSE <<"[Persona Anchor]">> \o Strip(snippet) \o <<"[End]">>

AnInit ==
    /\ an_result = <<>>
    /\ anchor_block = <<>>
    /\ an_pc = "call"

\* routes_openai_proxy.py lines 576-587: the tools/call the proxy posted has
\* returned its JSON-RPC result (the proxy sends an id, so there is one); the
\* proxy takes the snippet from it and builds the anchor block
AnchorInject(h) ==
    /\ an_pc = "call"
    /\ hs[h].pc = "done"
    /\ hs[h].returned = "result"
    /\ an_result' = <<hs[h].out>>
    /\ anchor_block' = _build_anchor_system_block(_call_local_gateway_ctx(hs[h].out))
    /\ an_pc' = "done"
    /\ hs' = [hs EXCEPT ![h] = IdleHandler]
    /\ UNCHANGED <<cache, clock, started, last, evictions, kwVars, ppVars, mjVars,
                   sumVars, ccVars, sanVars, streamVars, rpcVars>>

InitAn == GwInit /\ SanIdle /\ KwIdle /\ PpIdle /\ MjIdle /\ SumIdle /\ AnInit /\ CcIdle /\ StreamIdle /\ RpcIdle
NextAn ==
    \/ Next
    \/ \E h \in Handlers : AnchorInject(h)
SpecAn == InitAn /\ [][NextAn]_vars

\* ------------------------------------- SpecRpc: one request to /gateway_ctx
\* lines 833-838: GET and OPTIONS
RpcGetOptions ==
    /\ rpc_resp = NoRpcResp
    /\ rpc_req.kind = "get"
    /\ rpc_resp' = RpcResp(200, "object", <<>>, DefaultPv)
    /\ UNCHANGED <<rpc_req, rpc_i, rpc_results, rpc_pv, cache, clock, hs, started,
                   last, evictions, sanVars, fnVars, streamVars>>

\* lines 840-843: the body is not JSON
RpcParseError ==
    /\ rpc_resp = NoRpcResp
    /\ rpc_req.kind = "garbage"
    /\ rpc_resp' = RpcResp(200, "object", <<_jsonrpc_error(0, -32700)>>, DefaultPv)
    /\ UNCHANGED <<rpc_req, rpc_i, rpc_results, rpc_pv, cache, clock, hs, started,
                   last, evictions, sanVars, fnVars, streamVars>>

\* mutant of RpcLoopFree: the loop does not wait for the message in flight
RpcLoopFree_NoAwait == rpc_resp = NoRpcResp

\* r = await _handle_jsonrpc(...): the next message is taken up only when the
\* call for the one before has returned
RpcLoopFree == rpc_resp = NoRpcResp /\ \A h \in Handlers : hs[h].pc = "idle"

\* lines 848-852, 612-655: the next message is no tools/call of gateway_ctx;
\* an element of a batch that is no JSON object is passed over
RpcOther ==
    /\ RpcLoopFree
    /\ rpc_i < Len(RpcMessages(rpc_req))
    /\ LET msg == RpcMessages(rpc_req)[rpc_i + 1]
           pv == _negotiate_protocol_version(msg.pv, rpc_req.hv)
       IN /\ ~IsGatewayCall(msg)
          /\ rpc_i' = rpc_i + 1
          /\ IF msg.dict
             THEN /\ rpc_pv' = pv
                  /\ rpc_results' = rpc_results \o HandleOther(msg, rpc_i + 1, pv)
             ELSE UNCHANGED <<rpc_pv, rpc_results>>
    /\ UNCHANGED <<rpc_req, rpc_resp, cache, clock, hs, started, last, evictions,
                   sanVars, fnVars, streamVars>>

\* the next message is a tools/call of gateway_ctx: _handle_jsonrpc runs up to
\* the return of a fresh hit or to the await of the first RAG call
RpcToolsCall(h) ==
    /\ RpcLoopFree
    /\ rpc_i < Len(RpcMessages(rpc_req))
    /\ LET msg == RpcMessages(rpc_req)[rpc_i + 1]
       IN /\ IsGatewayCall(msg)
          /\ Start(h, [user |-> msg.args.user, keyword |-> msg.args.keyword,
                       text |-> msg.args.text, notif |-> ~msg.has_id])

\* _handle_jsonrpc has returned for a tools/call: its result, if any, is
\* appended to the results
RpcCollect(h) ==
    /\ hs[h].pc = "done"
    /\ LET msg == RpcMessages(rpc_req)[rpc_i + 1]
       IN /\ rpc_pv' = _negotiate_protocol_version(msg.pv, rpc_req.hv)
          /\ rpc_results' =
                IF hs[h].returned = "none" THEN rpc_results
                ELSE Append(rpc_results,
                            _jsonrpc_result(rpc_i + 1, "tools/call", "", hs[h].out))
    /\ rpc_i' = rpc_i + 1
    /\ hs' = [hs EXCEPT ![h] = IdleHandler]
    /\ UNCHANGED <<rpc_req, rpc_resp, cache, clock, started, last, evictions,
                   sanVars, fnVars, streamVars>>

\* lines 853-860: every message has been handled; the response is built
RpcRespond ==
    /\ RpcLoopFree
    /\ rpc_req.kind \in {"single", "batch"}
    /\ rpc_i = Len(RpcMessages(rpc_req))
    /\ LET pv == IF rpc_pv # "" THEN rpc_pv ELSE DefaultPv
       IN rpc_resp' =
            IF rpc_req.kind = "batch" THEN RpcResp(200, "array", rpc_results, pv)
            ELSE IF rpc_results = <<>> THEN RpcResp(204, "none", <<>>, pv)
            ELSE RpcResp(200, "object", rpc_results, pv)
    /\ UNCHANGED <<rpc_req, rpc_i, rpc_results, rpc_pv, cache, clock, hs, started,
                   last, evictions, sanVars, fnVars, streamVars>>

InitRpc == GwInit /\ SanIdle /\ FnIdle /\ StreamIdle /\ RpcInit
NextRpc ==
    \/ RpcGetOptions
    \/ RpcParseError
    \/ RpcOther
    \/ \E h \in Handlers : RpcToolsCall(h)
    \/ \E h \in Handlers, outs \in RagResponses, fin \in FinishKinds :
           PrimaryReturns(h, outs, fin)
    \/ \E h \in Handlers, outs \in RagResponses : PrimaryEmpty(h, outs)
    \/ \E h \in Handlers, outs \in RagResponses, fin \in FinishKinds :
           FallbackReturns(h, outs, fin)
    \/ \E h \in Handlers, e \in RagErrors : RagRaises(h, e)
    \/ \E h \in Handlers : RpcCollect(h)
    \/ RpcRespond
SpecRpc == InitRpc /\ [][NextRpc]_vars


\* ------------------------- SpecKw: one tools/call, seen from its arguments
\* the characters of a keyword argument and the text arguments of the model
KwChars == {"k", "w", ",", ";", " ", "?"}
KwTexts == {<<>>, <<"bro">>, <<"w", "bro">>, <<"y", "w", "y">>}

KwInit ==
    /\ kw_arg \in SeqsUpTo(KwChars, MaxKw)
    /\ kw_text \in KwTexts
    /\ kw_norm = <<>>
    /\ kw_pc = "in"

\* _normalize_kw applied to the keyword argument, and to its own result
NormalizeCall ==
    /\ kw_pc = "in"
    /\ started = 0
    /\ kw_norm' = [once |-> _normalize_kw(kw_arg),
                   twice |-> _normalize_kw(_normalize_kw(kw_arg))]
    /\ kw_pc' = "done"
    /\ UNCHANGED <<kw_arg, kw_text, ppVars, mjVars, sumVars, anVars, ccVars, sanVars, streamVars, gwVars>>

\* the tools/call with these arguments enters _handle_jsonrpc
KwToolsCall(h) ==
    /\ kw_pc = "in"
    /\ started = 0
    /\ Start(h, [user |-> <<"a">>, keyword |-> kw_arg, text |-> kw_text,
                 notif |-> FALSE])

InitKw == GwInit /\ RpcIdle /\ SanIdle /\ StreamIdle /\ KwInit /\ PpIdle /\ MjIdle /\ SumIdle /\ AnIdle /\ CcIdle
NextKw ==
    \/ NormalizeCall
    \/ \E h \in Handlers : KwToolsCall(h)
    \/ \E h \in Handlers, outs \in RagResponses, fin \in FinishKinds :
           PrimaryReturns(h, outs, fin)
    \/ \E h \in Handlers, outs \in RagResponses : PrimaryEmpty(h, outs)
    \/ \E h \in Handlers, outs \in RagResponses, fin \in FinishKinds :
           FallbackReturns(h, outs, fin)
    \/ \E h \in Handlers, e \in RagErrors : RagRaises(h, e)
SpecKw == InitKw /\ [][NextKw]_vars


\* ------------------ SpecPp: _score_and_rank_candidates (sort and dedup)
\* A score_final is a number or NaN (float("nan") of a candidate's "score");
\* every comparison with NaN is false.
NaN == -1
RETRIEVAL_TOP_N == 3

Gt(a, b) == a # NaN /\ b # NaN /\ a > b

\* texts, as sequences of tokens: TextA and TextB are TextE with one more
\* token each
TextE == [i \in 1..10 |-> i]
TextA == Append(TextE, 11)
TextB == Append(TextE, 12)

\* one scored candidate; id is its position in the candidate list ("ev_<idx>",
\* line 354), dups is meta.duplicates; all candidates have the same recency
Cand(source_id, chunk_id, text, score_final, source_priority) ==
    [id |-> 0, source_id |-> source_id, chunk_id |-> chunk_id, text |-> text,
     score_final |-> score_final, source_priority |-> source_priority,
     recency |-> 1, dups |-> <<>>]

\* lines 340-354: the candidates of a list get their ids in list order
WithIds(l) == [i \in 1..Len(l) |-> [l[i] EXCEPT !.id = i]]

\* lines 414-423, for the fields a candidate of the model has
_dup_payload(ev) ==
    [id |-> ev.id, source_id |-> ev.source_id, chunk_id |-> ev.chunk_id,
     score_final |-> ev.score_final]

Cands ==
    {Cand(d, "", t, sc, pr) : d \in {"d1", "d2", "d3"}, t \in {TextE, TextA, TextB},
                              sc \in {NaN, 1, 2}, pr \in {1, 2}}

\* Python's == and < on two floats
FEq(a, b) == a # NaN /\ b # NaN /\ a = b
FLt(a, b) == a # NaN /\ b # NaN /\ a < b

\* Python's < on two tuples of floats of one length: the first position where
\* the elements are not == decides
KeyLt(a, b) ==
    LET diff == {k \in 1..Len(a) : ~FEq(a[k], b[k])}
    IN diff # {} /\ LET k == CHOOSE x \in diff : \A y \in diff : x <= y
                    IN FLt(a[k], b[k])

Reverse(s) == [i \in 1..Len(s) |-> s[Len(s) + 1 - i]]

\* list.sort of CPython on a short list of <<key, item>> pairs: the length of
\* the run the list starts with, descending (strictly) or ascending
CountRun(a) ==
    IF Len(a) < 2 THEN Len(a)
    ELSE LET desc == KeyLt(a[2][1], a[1][1])
             Goes(j) == IF desc THEN KeyLt(a[j][1], a[j - 1][1])
                        ELSE ~KeyLt(a[j][1], a[j - 1][1])
         IN CHOOSE i \in 2..Len(a) :
                /\ \A j \in 2..i : Goes(j)
                /\ (i < Len(a) => ~Goes(i + 1))

\* the position (counted from 0) binary insertion gives pivot in a[1..r]
RECURSIVE Bisect(_, _, _, _)
Bisect(a, pivot, l, r) ==
    IF l >= r THEN l
    ELSE LET p == l + (r - l) \div 2
         IN IF KeyLt(pivot[1], a[p + 1][1]) THEN Bisect(a, pivot, l, p)
            ELSE Bisect(a, pivot, p + 1, r)

RECURSIVE BinarySort(_, _)
BinarySort(sorted, rest) ==
    IF rest = <<>> THEN sorted
    ELSE LET l == Bisect(sorted, Head(rest), 0, Len(sorted))
         IN BinarySort(SubSeq(sorted, 1, l) \o <<Head(rest)>>
                       \o SubSeq(sorted, l + 1, Len(sorted)), Tail(rest))

\* list.sort(key=..., reverse=True) of CPython 3.11 on a list shorter than 64:
\* the list is reversed, its first run is put in ascending order, the other
\* elements are inserted by binary insertion, and the result is reversed.
\* Only < on the keys is used, so a NaN key is never moved past.
SortReverse(l, keys) ==
    LET a == Reverse([i \in 1..Len(l) |-> <<keys[i], l[i]>>])
        n == CountRun(a)
        run == IF Len(a) >= 2 /\ KeyLt(a[2][1], a[1][1])
               THEN Reverse(SubSeq(a, 1, n)) ELSE SubSeq(a, 1, n)
        out == Reverse(BinarySort(run, SubSeq(a, n + 1, Len(a))))
    IN [i \in 1..Len(l) |-> out[i][2]]

_tokenize_for_jaccard(text) == {text[i] : i \in 1..Len(text)}

\* inter / union as the pair <<numerator, denominator>>
_jaccard_similarity(a, b) ==
    IF a = {} /\ b = {} THEN <<1, 1>>
    ELSE IF a = {} \/ b = {} THEN <<0, 1>>
    ELSE <<Cardinality(a \cap b), Cardinality(a \cup b)>>

\* ratio > 0.9
Over09(r) == 10 * r[1] > 9 * r[2]

\* lines 426-440: the keeper gets the payload of the other record appended;
\* the other record's own duplicates are not copied
_merge_duplicate(kept, incoming) ==
    IF Gt(incoming.score_final, kept.score_final)
    THEN [incoming EXCEPT !.dups = Append(@, _dup_payload(kept))]
    ELSE [kept EXCEPT !.dups = Append(@, _dup_payload(incoming))]

KeyOfCand(ev) == <<ev.source_id, ev.chunk_id>>

\* lines 445-460
RECURSIVE DedupByKey(_, _)
DedupByKey(scored, by_source_chunk) ==
    IF scored = <<>> THEN by_source_chunk
    ELSE LET ev == Head(scored)
             same == {i \in 1..Len(by_source_chunk) :
                         KeyOfCand(by_source_chunk[i]) = KeyOfCand(ev)}
         IN IF same = {}
            THEN DedupByKey(Tail(scored), Append(by_source_chunk, ev))
            ELSE LET idx == CHOOSE i \in same : TRUE
                 IN DedupByKey(Tail(scored),
                               [by_source_chunk EXCEPT
                                   ![idx] = _merge_duplicate(@, ev)])

\* lines 463-480
RECURSIVE DedupByText(_, _)
DedupByText(by_source_chunk, deduped) ==
    IF by_source_chunk = <<>> THEN deduped
    ELSE LET ev == Head(by_source_chunk)
             cur_tokens == _tokenize_for_jaccard(ev.text)
             near == {i \in 1..Len(deduped) :
                         Over09(_jaccard_similarity(
                             cur_tokens, _tokenize_for_jaccard(deduped[i].text)))}
         IN IF near = {}
            THEN DedupByText(Tail(by_source_chunk), Append(deduped, ev))
            ELSE LET duplicate_idx == CHOOSE i \in near : \A j \in near : i <= j
                 IN DedupByText(Tail(by_source_chunk),
                                [deduped EXCEPT
                                    ![duplicate_idx] = _merge_duplicate(@, ev)])

\* lines 445-480: the records that survive both dedup stages
Deduped(scored) == DedupByText(DedupByKey(scored, <<>>), <<>>)

\* lines 443-483; line 482 sorts by score_final alone
_postprocess_candidates(scored, top_n) ==
    LET d == Deduped(scored)
        deduped == SortReverse(d, [i \in 1..Len(d) |-> <<d[i].score_final>>])
    IN SubSeq(deduped, 1, IF top_n < Len(deduped) THEN top_n ELSE Len(deduped))

\* lines 340-379: the candidates with their ids, sorted by (score_final,
\* source priority, recency), highest first
Scored(candidates) ==
    LET scored == WithIds(candidates)
    IN SortReverse(scored, [i \in 1..Len(scored) |->
                      <<scored[i].score_final, scored[i].source_priority,
                        scored[i].recency>>])

\* lines 338-381
_score_and_rank_candidates(candidates, top_n) ==
    LET n == IF top_n >= 1 THEN top_n ELSE IF top_n = 0 THEN RETRIEVAL_TOP_N ELSE 1
    IN _postprocess_candidates(Scored(candidates), n)

PpInit ==
    /\ pp_in \in SeqsUpTo(Cands, MaxCands)
    /\ pp_out = <<>>
    /\ pp_pc = "call"

\* line 770
PostprocessCall ==
    /\ pp_pc = "call"
    /\ pp_out' = _score_and_rank_candidates(pp_in, RETRIEVAL_TOP_N)
    /\ pp_pc' = "done"
    /\ UNCHANGED <<pp_in, kwVars, mjVars, sumVars, anVars, ccVars, sanVars, streamVars, gwVars>>

InitPp == PpInit /\ KwIdle /\ MjIdle /\ SumIdle /\ AnIdle /\ CcIdle /\ SanIdle /\ StreamIdle /\ GwIdle
NextPp == PostprocessCall
SpecPp == InitPp /\ [][NextPp]_vars

\* ------------------------------------------------- mojibake repair
\* app/services/summarizer.py.  A text is a sequence of Unicode code points, a
\* byte string a sequence of numbers in 0..255.
None == <<-1>>
REPLACEMENT == 65533

\* line 142: "一" <= ch <= "鿿"
IsCjk(ch) == ch >= 19968 /\ ch <= 40959

\* lines 147, 159: "\u0080" <= ch <= "\u009f"
IsC1(ch) == ch >= 128 /\ ch <= 159

_count_cjk_chars(s) == Cardinality({i \in 1..Len(s) : IsCjk(s[i])})

_strip_ctrl(s) == SelectSeq(s, LAMBDA ch : ~IsC1(ch))

\* line 154: A-tilde, A-circumflex, ae, a-umlaut, a-ring, c-cedilla, eth,
\* U+0085, U+009D, U+009F
Markers == {195, 194, 230, 228, 229, 231, 240, 133, 157, 159}

\* line 204
BadMarkers == {195, 194, 230, 228, 229, 231, 240}

\* line 163
BadLatin == {230, 229, 231, 195, 194}

_mojibake_score(text) == CountIn(text, Markers)

_ctrl_char_count(text) == Cardinality({i \in 1..Len(text) : IsC1(text[i])})

_bad_latin_run_count(text) ==
    Cardinality({i \in 1..Len(text) :
                    /\ text[i] \in BadLatin
                    /\ (i = 1 \/ text[i - 1] \notin BadLatin)})

_looks_mojibake_text(text) ==
    _mojibake_score(text) > 0 \/ _ctrl_char_count(text) > 0

\* str.encode("latin-1", errors="strict"): code points up to U+00FF are their
\* own byte, any other code point raises
EncodeLatin1(s) == IF \A i \in 1..Len(s) : s[i] <= 255 THEN s ELSE None

\* the code points above U+00FF that cp1252 encodes in 0x80..0x9F
Cp1252High ==
    (8364 :> 128) @@ (8218 :> 130) @@ (402 :> 131) @@ (8222 :> 132) @@
    (8230 :> 133) @@ (8224 :> 134) @@ (8225 :> 135) @@ (710 :> 136) @@
    (8240 :> 137) @@ (352 :> 138) @@ (8249 :> 139) @@ (338 :> 140) @@
    (381 :> 142) @@ (8216 :> 145) @@ (8217 :> 146) @@ (8220 :> 147) @@
    (8221 :> 148) @@ (8226 :> 149) @@ (8211 :> 150) @@ (8212 :> 151) @@
    (732 :> 152) @@ (8482 :> 153) @@ (353 :> 154) @@ (8250 :> 155) @@
    (339 :> 156) @@ (382 :> 158) @@ (376 :> 159)

Cp1252Ok(ch) == ch < 128 \/ (ch >= 160 /\ ch <= 255) \/ ch \in DOMAIN Cp1252High

\* str.encode("cp1252", errors="strict"): U+0080..U+009F and every code
\* point outside the code page raise
EncodeCp1252(s) ==
    IF \A i \in 1..Len(s) : Cp1252Ok(s[i])
    THEN [i \in 1..Len(s) |->
            IF s[i] \in DOMAIN Cp1252High THEN Cp1252High[s[i]] ELSE s[i]]
    ELSE None

Encode(s, src) == IF src = "latin-1" THEN EncodeLatin1(s) ELSE EncodeCp1252(s)

Drop(b, k) == SubSeq(b, k + 1, Len(b))

\* the values the second byte of a 3- or 4-byte UTF-8 sequence may take
SecondOf(b1) ==
    IF b1 = 224 THEN 160..191
    ELSE IF b1 = 237 THEN 128..159
    ELSE IF b1 = 240 THEN 144..191
    ELSE IF b1 = 244 THEN 128..143
    ELSE 128..191

\* bytes.decode("utf-8", errors="replace"): every maximal ill-formed prefix
\* becomes one U+FFFD.  On well-formed input it is what errors="strict"
\* returns, so the strict attempt of line 189 needs no case of its own.
RECURSIVE Utf8Decode(_)
Utf8Decode(b) ==
    IF b = <<>> THEN <<>>
    ELSE LET b1 == b[1]
             n == Len(b)
             Is2 == n >= 2 /\ b[2] \in SecondOf(b1)
             Is3 == n >= 3 /\ b[3] \in 128..191
             Is4 == n >= 4 /\ b[4] \in 128..191
         IN IF b1 < 128 THEN <<b1>> \o Utf8Decode(Drop(b, 1))
            ELSE IF b1 \in 194..223 THEN
                IF Is2
                THEN <<(b1 - 192) * 64 + (b[2] - 128)>> \o Utf8Decode(Drop(b, 2))
                ELSE <<REPLACEMENT>> \o Utf8Decode(Drop(b, 1))
            ELSE IF b1 \in 224..239 THEN
                IF ~Is2 THEN <<REPLACEMENT>> \o Utf8Decode(Drop(b, 1))
                ELSE IF ~Is3 THEN <<REPLACEMENT>> \o Utf8Decode(Drop(b, 2))
                ELSE <<(b1 - 224) * 4096 + (b[2] - 128) * 64 + (b[3] - 128)>>
                     \o Utf8Decode(Drop(b, 3))
            ELSE IF b1 \in 240..244 THEN
                IF ~Is2 THEN <<REPLACEMENT>> \o Utf8Decode(Drop(b, 1))
                ELSE IF ~Is3 THEN <<REPLACEMENT>> \o Utf8Decode(Drop(b, 2))
                ELSE IF ~Is4 THEN <<REPLACEMENT>> \o Utf8Decode(Drop(b, 3))
                ELSE <<(b1 - 240) * 262144 + (b[2] - 128) * 4096
                       + (b[3] - 128) * 64 + (b[4] - 128)>>
                     \o Utf8Decode(Drop(b, 4))
            ELSE <<REPLACEMENT>> \o Utf8Decode(Drop(b, 1))

\* lines 180-195: the first seed among s and _strip_ctrl(s) that encodes is
\* decoded (the decode with errors="replace" never raises, so a second byte
\* candidate is never tried)
_try_recode(s, src) ==
    LET b == IF Encode(s, src) # None THEN Encode(s, src)
             ELSE Encode(_strip_ctrl(s), src)
    IN IF b = None THEN None ELSE _strip_ctrl(Utf8Decode(b))

\* lines 208-215
metrics(s) ==
    [cjk_count |-> _count_cjk_chars(s),
     mojibake_markers |-> _mojibake_score(s),
     replacement_count |-> CountIn(s, {REPLACEMENT}),
     ctrl_count |-> _ctrl_char_count(s),
     bad_latin_runs |-> _bad_latin_run_count(s)]

\* lines 217-225
ordering_key(m) ==
    <<m.cjk_count, 0 - m.mojibake_markers,
      0 - (m.ctrl_count + m.replacement_count), 0 - m.bad_latin_runs,
      0 - m.replacement_count>>

\* Python's > on tuples of integers of one length
TupleGt(a, b) ==
    \E k \in 1..Len(a) : a[k] > b[k] /\ \A j \in 1..(k - 1) : a[j] = b[j]

KeyOfText(s) == ordering_key(metrics(s))

Codecs == {"latin-1", "cp1252"}

\* lines 234-254: the candidate set after at most rounds rounds
RECURSIVE RecodeRounds(_, _)
RecodeRounds(candidates, rounds) ==
    IF rounds = 0 THEN candidates
    ELSE LET next_round ==
                 {c \in {_try_recode(seed, src) : seed \in candidates, src \in Codecs} :
                     c # None /\ c # <<>> /\ c \notin candidates}
         IN IF next_round = {} THEN candidates
            ELSE RecodeRounds(candidates \cup next_round, rounds - 1)

\* lines 227-228
max_rounds(text) ==
    2 + (IF _mojibake_score(text) > 2 THEN 1 ELSE 0)
      + (IF _mojibake_score(text) > 5 THEN 1 ELSE 0)

RecodeCandidates(text) == RecodeRounds({text}, max_rounds(text))

\* lines 230-264: the values best may end with.  The candidates are a Python
\* set, iterated in an order the program does not fix; best is replaced only
\* by a strictly greater key, so it ends as the first candidate met among
\* those of the greatest key, or as the cleaned original when none beats it.
BestOf(text) ==
    LET cleaned == {_strip_ctrl(c) : c \in RecodeCandidates(text)}
        better == {c \in cleaned : TupleGt(KeyOfText(c), KeyOfText(_strip_ctrl(text)))}
    IN IF better = {} THEN {_strip_ctrl(text)}
       ELSE {c \in better : \A d \in better : ~TupleGt(KeyOfText(d), KeyOfText(c))}

\* mutant of _maybe_repair_mojibake_text: without the guard of lines 267-268
_maybe_repair_mojibake_text_NoGuard(text) ==
    IF text = <<>> THEN {text}
    ELSE IF _count_cjk_chars(text) >= 2 /\ CountIn(text, BadMarkers) = 0
    THEN {_strip_ctrl(text)}
    ELSE {_strip_ctrl(b) : b \in BestOf(text)}

\* lines 198-283: the set of texts the call may return
_maybe_repair_mojibake_text(text) ==
    IF text = <<>> THEN {text}
    ELSE IF _count_cjk_chars(text) >= 2 /\ CountIn(text, BadMarkers) = 0
    THEN {_strip_ctrl(text)}
    ELSE IF ~_looks_mojibake_text(text) THEN {_strip_ctrl(text)}
    ELSE {_strip_ctrl(b) : b \in BestOf(text)}

\* the code points texts are drawn from: a, e-acute, cedilla, soft hyphen,
\* a-umlaut, U+0085, U+0081 and a CJK ideograph.  E9 B8 AD and E4 B8 AD are
\* the UTF-8 bytes of two CJK ideographs.
MjChars == {97, 233, 184, 173, 228, 133, 129, 20013}

MjInit ==
    /\ mj_in \in SeqsUpTo(MjChars, MaxText)
    /\ mj_out = <<>>
    /\ mj_pc = "call"

\* line 288: _repair_mojibake_in_obj calls the repair on a string
RepairCall ==
    /\ mj_pc = "call"
    /\ mj_out' \in _maybe_repair_mojibake_text(mj_in)
    /\ mj_pc' = "done"
    /\ UNCHANGED <<mj_in, kwVars, ppVars, sumVars, anVars, ccVars, sanVars, streamVars, gwVars>>

InitMj == MjInit /\ KwIdle /\ PpIdle /\ SumIdle /\ AnIdle /\ CcIdle /\ SanIdle /\ StreamIdle /\ GwIdle
NextMj == RepairCall
SpecMj == InitMj /\ [][NextMj]_vars

\* ------------------------------------------------------ run_s4, run_s60
\* app/services/summarizer.py.  One session; Python's None is NoId.
NoId == "None"
SessionId == "s"

\* lines 443-450
_default_summary_schema ==
    [goal |-> "default_goal", state |-> "default_state",
     open_loops |-> <<"default_loop">>, constraints |-> <<"default_constraint">>,
     tone_notes |-> <<"default_tone">>]

\* what the summarizer endpoint does: no endpoint configured; the request
\* fails; the body is not JSON; the message content is empty; the content is
\* not JSON; the content is JSON but not an object; the content is an object
\* (with a goal and open loops, no other field)
LlmOutcomes ==
    {"unconfigured", "http_error", "bad_body", "empty", "bad_content",
     "nondict", "dict"}

LlmObject == [goal |-> "g", open_loops |-> <<"o">>]

Raised == <<"raise">>
IsRaised(r) == r[1] = "raise"

\* lines 299-440: the object call_llm_json returns, or Raised.
\* raise_for_status (line 334), an undecodable body (line 392), an empty
\* content (line 419) and a content that is not JSON (line 435) raise.
call_llm_json(llm) ==
    IF llm \in {"http_error", "bad_body", "empty", "bad_content"} THEN Raised
    ELSE IF llm = "nondict" THEN <<"list">>
    ELSE <<"dict", LlmObject>>

\* obj.setdefault(field, value)
SetDefault(obj, field, value) ==
    IF field \in DOMAIN obj THEN obj[field] ELSE value

\* lines 44-95, for a transcript and a summary that hold none of the phrases
\* of lines 36-39, 71, 76 and 85: a value that is not a dict becomes the
\* default schema, missing fields are added, an empty goal or state gets
\* its fallback text
_sanitize_summary(r) ==
    IF r[1] # "dict" THEN _default_summary_schema
    ELSE LET obj == r[2]
             goal == SetDefault(obj, "goal", "")
             state == SetDefault(obj, "state", "")
         IN [goal |-> IF goal = "" THEN "fallback_goal" ELSE goal,
             state |-> IF state = "" THEN "fallback_state" ELSE state,
             open_loops |-> SetDefault(obj, "open_loops", <<>>),
             constraints |-> SetDefault(obj, "constraints", <<>>),
             tone_notes |-> SetDefault(obj, "tone_notes", <<>>)]

\* lines 462-502: <<"ok", summary>>, or Raised.  The
\* exceptions of call_llm_json are not caught.
_summarize_with_optional_llm(llm) ==
    IF llm = "unconfigured" THEN <<"ok", _default_summary_schema>>
    ELSE IF IsRaised(call_llm_json(llm)) THEN Raised
    ELSE <<"ok", _sanitize_summary(call_llm_json(llm))>>

\* lines 505-603: as above, but _summary_debug_snapshot(raw_obj) of line 579
\* calls raw_obj.get, which a value that is not a dict does not have
_summarize_s4_with_debug_events(llm) ==
    IF llm = "unconfigured" THEN <<"ok", _default_summary_schema>>
    ELSE IF IsRaised(call_llm_json(llm)) THEN Raised
    ELSE IF call_llm_json(llm)[1] # "dict" THEN Raised
    ELSE <<"ok", _sanitize_summary(call_llm_json(llm))>>

\* lines 606-626
_build_scope_query(session_id, scope_type, thread_id, memory_id, agent_id) ==
    SelectSeq(message_rows, LAMBDA m :
        /\ m.session_id = session_id
        /\ (scope_type = "thread" /\ thread_id # NoId) => m.thread_id = thread_id
        /\ (scope_type = "memory" /\ memory_id # NoId) => m.memory_id = memory_id
        /\ (scope_type = "memory" /\ agent_id # NoId) => m.agent_id = agent_id)

LastN(s, n) == SubSeq(s, IF Len(s) > n THEN Len(s) - n + 1 ELSE 1, Len(s))

\* lines 655-662
RECURSIVE OrderedUserTurns(_, _)
OrderedUserTurns(rows, acc) ==
    IF rows = <<>> THEN acc
    ELSE LET ut == Head(rows).user_turn
         IN OrderedUserTurns(Tail(rows),
                IF \E i \in 1..Len(acc) : acc[i] = ut THEN acc
                ELSE Append(acc, ut))

\* lines 629-667: the user rows of the scope, the to_user_turn of them with
\* the greatest turn_id, their user turns in ascending order, the last
\* window_user_turn of those
_resolve_scope_user_turns(session_id, to_user_turn, window_user_turn, scope_type, thread_id, memory_id, agent_id) ==
    LET q == _build_scope_query(session_id, scope_type, thread_id, memory_id, agent_id)
        user_turn_rows == LastN(SelectSeq(q, LAMBDA m : m.role = "user"), to_user_turn)
    IN LastN(OrderedUserTurns(user_turn_rows, <<>>), window_user_turn)

\* lines 705-719, 855-869
ScopedMsgs(session_id, to_user_turn, window_user_turn, scope_type, thread_id, memory_id, agent_id) ==
    LET turns == _resolve_scope_user_turns(session_id, to_user_turn, window_user_turn,
                                           scope_type, thread_id, memory_id, agent_id)
    IN SelectSeq(_build_scope_query(session_id, scope_type, thread_id, memory_id, agent_id),
                 LAMBDA m : \E i \in 1..Len(turns) : turns[i] = m.user_turn)

\* lines 688-692
EffectiveScope(s4_scope) == IF s4_scope = "memory" THEN "memory" ELSE "thread"

\* lines 728-737, 877-886: a column compared with None is compared by IS NULL
Existed(table, session_id, scope_type, thread_id, memory_id, agent_id, to_turn) ==
    \E i \in 1..Len(table) :
        /\ table[i].session_id = session_id
        /\ table[i].scope_type = scope_type
        /\ table[i].thread_id = thread_id
        /\ table[i].memory_id = memory_id
        /\ table[i].agent_id = agent_id
        /\ table[i].to_turn = to_turn

\* Python's a or b on an id
OrId(a, b) == IF a # NoId THEN a ELSE b

\* lines 763-797, 893-927
SummaryRow(level, session_id, scope_type, thread_id, memory_id, agent_id, summary_version, msgs, summary_obj) ==
    LET first_msg == msgs[1]
        trace_thread_id == OrId(thread_id, first_msg.thread_id)
        trace_memory_id == OrId(memory_id, first_msg.memory_id)
        trace_agent_id == OrId(agent_id, first_msg.agent_id)
        to_turn == msgs[Len(msgs)].turn_id
    IN [session_id |-> session_id,
        scope_type |-> scope_type,
        thread_id |-> trace_thread_id,
        memory_id |-> trace_memory_id,
        agent_id |-> trace_agent_id,
        summary_version |-> summary_version,
        dedupe_key |-> <<level, scope_type, trace_thread_id, trace_memory_id,
                         trace_agent_id, to_turn, summary_version>>,
        from_turn |-> msgs[1].turn_id,
        to_turn |-> to_turn,
        summary_json |-> summary_obj]

\* the body shared by run_s4 (lines 694-826) and run_s60 (lines 844-935):
\* the table after the call and the outcome of the call
RunSummary(level, table, scope_type, to_user_turn, window_user_turn, thread_id, memory_id, agent_id, summary_version, llm, summarized) ==
    LET msgs == ScopedMsgs(SessionId, to_user_turn, window_user_turn, scope_type,
                           thread_id, memory_id, agent_id)
    IN IF msgs = <<>>
       THEN <<table, [op |-> level, outcome |-> "no message_rows", llm |-> "unused",
                      summary |-> <<>>]>>
       ELSE IF Existed(table, SessionId, scope_type, thread_id, memory_id, agent_id,
                       msgs[Len(msgs)].turn_id)
       THEN <<table, [op |-> level, outcome |-> "exists", llm |-> "unused",
                      summary |-> <<>>]>>
       ELSE IF IsRaised(summarized)
       THEN <<table, [op |-> level, outcome |-> "raised", llm |-> llm,
                      summary |-> <<>>]>>
       ELSE <<Append(table, SummaryRow(level, SessionId, scope_type, thread_id,
                                       memory_id, agent_id, summary_version, msgs,
                                       summarized[2])),
              [op |-> level, outcome |-> "inserted", llm |-> llm,
               summary |-> <<summarized[2]>>]>>

\* the thread_id, memory_id and agent_id arguments of a call
ScopeArgs ==
    {[thread_id |-> NoId, memory_id |-> NoId, agent_id |-> NoId],
     [thread_id |-> "t1", memory_id |-> NoId, agent_id |-> NoId],
     [thread_id |-> NoId, memory_id |-> "m1", agent_id |-> NoId],
     [thread_id |-> "t1", memory_id |-> "m1", agent_id |-> "a1"]}

\* the ids a turn is stored with
TurnIds ==
    {[thread_id |-> NoId, memory_id |-> NoId, agent_id |-> NoId],
     [thread_id |-> "t1", memory_id |-> "m1", agent_id |-> "a1"]}

SumInit ==
    /\ message_rows = <<>>
    /\ summaries_s4 = <<>>
    /\ summaries_s60 = <<>>
    /\ sum_last = [op |-> "none", outcome |-> "none", llm |-> "unused", summary |-> <<>>]

\* a user message and the assistant's answer are stored as one user turn
AppendTurn(ids) ==
    /\ sum_last.op # "off"
    /\ Len(message_rows) < 2 * MaxTurns
    /\ LET n == Len(message_rows)
           m(role) == [session_id |-> SessionId, turn_id |-> 0, user_turn |-> n \div 2 + 1,
                       role |-> role, thread_id |-> ids.thread_id,
                       memory_id |-> ids.memory_id, agent_id |-> ids.agent_id]
       IN message_rows' = message_rows \o <<[m("user") EXCEPT !.turn_id = n + 1],
                                    [m("assistant") EXCEPT !.turn_id = n + 2]>>
    /\ UNCHANGED <<summaries_s4, summaries_s60, sum_last, kwVars, ppVars, mjVars, anVars, ccVars,
                   sanVars, streamVars, gwVars>>

\* lines 673-826, with the default window_user_turn and summary_version
run_s4(to_user_turn, thread_id, memory_id, agent_id, s4_scope, llm) ==
    /\ sum_last.op # "off"
    /\ Len(summaries_s4) + Len(summaries_s60) < MaxRows
    /\ LET r == RunSummary("s4", summaries_s4, EffectiveScope(s4_scope), to_user_turn, 4,
                           thread_id, memory_id, agent_id, 2, llm,
                           _summarize_s4_with_debug_events(llm))
       IN /\ summaries_s4' = r[1]
          /\ sum_last' = r[2]
    /\ UNCHANGED <<message_rows, summaries_s60, kwVars, ppVars, mjVars, anVars, ccVars, sanVars,
                   streamVars, gwVars>>

\* lines 829-935, with the default window_user_turn and summary_version
run_s60(to_user_turn, thread_id, memory_id, agent_id, llm) ==
    /\ sum_last.op # "off"
    /\ Len(summaries_s4) + Len(summaries_s60) < MaxRows
    /\ LET r == RunSummary("s60", summaries_s60, "memory", to_user_turn, 30,
                           thread_id, memory_id, agent_id, 1, llm,
                           _summarize_with_optional_llm(llm))
       IN /\ summaries_s60' = r[1]
          /\ sum_last' = r[2]
    /\ UNCHANGED <<message_rows, summaries_s4, kwVars, ppVars, mjVars, anVars, ccVars, sanVars,
                   streamVars, gwVars>>

InitSum == SumInit /\ KwIdle /\ PpIdle /\ MjIdle /\ AnIdle /\ CcIdle /\ SanIdle /\ StreamIdle /\ GwIdle
NextSum ==
    \/ \E ids \in TurnIds : AppendTurn(ids)
    \/ \E to_user_turn \in 1..MaxTurns, ids \in ScopeArgs, s4_scope \in {"thread", "memory", "auto"}, llm \in LlmOutcomes : run_s4(to_user_turn, ids.thread_id, ids.memory_id, ids.agent_id, s4_scope, llm)
    \/ \E to_user_turn \in 1..MaxTurns, ids \in ScopeArgs, llm \in LlmOutcomes : run_s60(to_user_turn, ids.thread_id, ids.memory_id, ids.agent_id, llm)
SpecSum == InitSum /\ [][NextSum]_vars

\* ------------- SpecCc: two summary runs in DB sessions of their own
\* Each call reads through its own session; a row is visible to the other
\* call from its commit on. No index of the summary tables is unique
\* (migration 6f8c0b1a2d34, lines 29-41), so a commit never fails on a
\* duplicate.
Procs == {1, 2}

IdleCaller ==
    [pc |-> "idle", level |-> "", scope_type |-> "", thread_id |-> NoId,
     memory_id |-> NoId, agent_id |-> NoId, msgs |-> <<>>, outcome |-> ""]

CcInit == callers = [p \in Procs |-> IdleCaller]

\* the summarizer answers of this specification: one that gives a summary and
\* one that makes call_llm_json raise
CcLlm == {"dict", "empty"}

\* run_s4 lines 688-737, run_s60 lines 844-886: the messages of the scope are
\* loaded and the existence check is made
CcCheck(p, level, to_user_turn, ids, s4_scope) ==
    /\ callers[p].pc = "idle"
    /\ LET scope_type == IF level = "s4" THEN EffectiveScope(s4_scope) ELSE "memory"
           window_user_turn == IF level = "s4" THEN 4 ELSE 30
           table == IF level = "s4" THEN summaries_s4 ELSE summaries_s60
           msgs == ScopedMsgs(SessionId, to_user_turn, window_user_turn, scope_type,
                              ids.thread_id, ids.memory_id, ids.agent_id)
           C == [IdleCaller EXCEPT !.level = level, !.scope_type = scope_type,
                                   !.thread_id = ids.thread_id,
                                   !.memory_id = ids.memory_id,
                                   !.agent_id = ids.agent_id, !.msgs = msgs]
       IN callers' = [callers EXCEPT ![p] =
              IF msgs = <<>>
              THEN [C EXCEPT !.pc = "done", !.outcome = "no message_rows"]
              ELSE IF Existed(table, SessionId, scope_type, ids.thread_id,
                              ids.memory_id, ids.agent_id, msgs[Len(msgs)].turn_id)
              THEN [C EXCEPT !.pc = "done", !.outcome = "exists"]
              ELSE [C EXCEPT !.pc = "checked"]]
    /\ UNCHANGED <<sumVars, kwVars, ppVars, mjVars, anVars, sanVars, streamVars, gwVars>>

\* run_s4 lines 739-826, run_s60 lines 888-935: the summarizer is called, the
\* row is added and committed
CcInsert(p, llm) ==
    /\ callers[p].pc = "checked"
    /\ Len(summaries_s4) + Len(summaries_s60) < MaxRows
    /\ LET C == callers[p]
           summarized == IF C.level = "s4" THEN _summarize_s4_with_debug_events(llm)
                         ELSE _summarize_with_optional_llm(llm)
           row == SummaryRow(C.level, SessionId, C.scope_type, C.thread_id,
                             C.memory_id, C.agent_id,
                             IF C.level = "s4" THEN 2 ELSE 1, C.msgs, summarized[2])
       IN IF IsRaised(summarized)
          THEN /\ callers' = [callers EXCEPT ![p].pc = "done", ![p].outcome = "raised"]
               /\ UNCHANGED <<summaries_s4, summaries_s60>>
          ELSE /\ callers' = [callers EXCEPT ![p].pc = "done",
                                             ![p].outcome = "inserted"]
               /\ IF C.level = "s4"
                  THEN summaries_s4' = Append(summaries_s4, row)
                       /\ UNCHANGED summaries_s60
                  ELSE summaries_s60' = Append(summaries_s60, row)
                       /\ UNCHANGED summaries_s4
    /\ UNCHANGED <<message_rows, sum_last, kwVars, ppVars, mjVars, anVars, sanVars,
                   streamVars, gwVars>>

InitCc == SumInit /\ CcInit /\ KwIdle /\ PpIdle /\ MjIdle /\ AnIdle /\ SanIdle /\ StreamIdle /\ GwIdle
NextCc ==
    \/ \E ids \in TurnIds : AppendTurn(ids)
    \/ \E p \in Procs, level \in {"s4", "s60"}, to_user_turn \in 1..MaxTurns, ids \in ScopeArgs, s4_scope \in {"thread", "memory"} : CcCheck(p, level, to_user_turn, ids, s4_scope)
    \/ \E p \in Procs, llm \in CcLlm : CcInsert(p, llm)
SpecCc == InitCc /\ [][NextCc]_vars

\* --------------------------------------------------------- specifications
InitSan == SanInit /\ FnIdle /\ StreamIdle /\ GwIdle
NextSan == SanitizeCall
SpecSan == InitSan /\ [][NextSan]_vars

InitStream == StreamInit /\ SanIdle /\ FnIdle /\ GwIdle
NextStream ==
    \/ ChatCompletionsStream
    \/ ChatRejectNotList
    \/ ChatMissingKey
    \/ \E at \in {"summaries", "ctx", "upstream"} : ChatUnhandled(at)
    \/ ChatUpstreamError
    \/ \E ok \in BOOLEAN : ChatJson(ok)
    \/ StreamErrorFrame
    \/ StreamErrorDone
    \/ StreamOpenOk
    \/ StreamLine
    \/ StreamEnd
    \/ UpstreamAbort
    \/ ClientDisconnect
    \/ \E ok \in BOOLEAN : PersistTurn(ok)
    \/ StreamTail
SpecStream == InitStream /\ [][NextStream]_vars

\* =================================================================== claims

\* ---- helpers of the claims (computed from what the client received and the
\* ---- upstream sent, not from the generator's own bookkeeping)
IsPrefix(s, t) == Len(s) <= Len(t) /\ s = SubSeq(t, 1, Len(s))

HasDone(lines) == \E i \in 1..Len(lines) : lines[i].kind = "done"

\* the upstream's lines up to and including its first "data: [DONE]"
UpToDone(lines) ==
    IF HasDone(lines)
    THEN SubSeq(lines, 1,
                CHOOSE i \in 1..Len(lines) :
                    /\ lines[i].kind = "done"
                    /\ \A j \in 1..(i - 1) : lines[j].kind # "done")
    ELSE lines

\* the concatenation of the delta.content parts of the data lines of a stream
RECURSIVE ContentOf(_)
ContentOf(lines) ==
    IF lines = <<>> THEN <<>>
    ELSE (IF Head(lines).kind = "data" THEN Head(lines).piece ELSE <<>>)
         \o ContentOf(Tail(lines))

\* the frames of a stream: its lines other than blank lines and comments
IsFrame(line) == line.kind \notin {"blank", "comment"}
Frames(lines) == SelectSeq(lines, IsFrame)

IsDoneLine(line) == line.kind = "done"

\* C1: after _sanitize_messages_for_upstream every tool message of the output
\* answers a tool_calls id of the nearest preceding assistant message of the
\* output, with only tool messages in between
ToolAnswersAssistant(out, i) ==
    \E j \in 1..(i - 1) :
        /\ out[j].role = "assistant"
        /\ \A k \in (j + 1)..(i - 1) : out[k].role = "tool"
        /\ out[j].has_tc
        /\ out[i].tcid \in CallIds(out[j].tc)

C1_NoOrphanTool ==
    san_pc = "done" =>
        \A i \in 1..Len(san_out) :
            san_out[i].role = "tool" => ToolAnswersAssistant(san_out, i)

\* C2: a client disconnect during a stream whose accumulated assistant text is
\* non-empty is still followed by a persistence attempt with that text
C2_PersistOnDisconnect ==
    (spc = "cancelled" /\ Join(full_parts) # <<>>) =>
        \E i \in 1..Len(persisted) :
            persisted[i].assistant_text = Strip(Join(full_parts))

\* ---- helpers of the claims about tools/call
\* the handler takes a request in this step
Starts(h) == started' = started + 1 /\ hs[h].pc = "idle" /\ hs'[h].pc # "idle"

\* the handler's call ends in this step, on its miss path
EndsMiss(h) == hs[h].pc \in {"primary", "fallback"} /\ hs'[h].pc = "done"

\* the cache key of the call a handler works on
KeyOf(H) == H.user \o <<"||">> \o H.keyword \o <<"||", "v1">>

CacheKeys(c) == {c[i].key : i \in 1..Len(c)}
CacheEntries(c) == {c[i] : i \in 1..Len(c)}

\* a RAG call returned no snippet
SnippetEmpty(call) == Strip(call.result) = <<>> /\ Strip(call.chat_text) = <<>>

\* C3: a tools/call that finds an entry of its cache key stored at t is served
\* from it iff now - t <= TTL; later than t + TTL it is a miss of reason
\* "expired" that goes to retrieval (one RAG call is awaited), and its
\* response reports that reason
C3_TtlDecidesHit ==
    /\ [][\A h \in Handlers : Starts(h) =>
            \A i \in 1..Len(cache) : cache[i].key = KeyOf(hs'[h]) =>
                IF clock - cache[i].t <= CACHE_TTL_SECS
                THEN /\ hs'[h].pc = "done"
                     /\ hs'[h].out.data.cache_hit
                     /\ hs'[h].out.text = cache[i].ctx
                     /\ hs'[h].rag = <<>>
                ELSE /\ hs'[h].pc = "primary"
                     /\ hs'[h].reason = "expired"
                     /\ Len(hs'[h].rag) = 1
                     /\ hs'[h].rag[1].st = "pending"]_vars
    /\ [](\A h \in Handlers :
            (hs[h].pc = "done" /\ hs[h].reason = "expired") =>
                /\ ~hs[h].out.data.cache_hit
                /\ hs[h].out.data.cache_miss_reason = "expired"
                /\ hs[h].rag # <<>>)

C3_Witness ==
    \E h \in Handlers :
        /\ hs[h].pc = "done"
        /\ hs[h].reason = "expired"
        /\ hs[h].out.data.cache_miss_reason = "expired"
        /\ ~hs[h].out.isError

\* C4: a tools/call that follows, within TTL of its cache write, a successful
\* call of the same user and keyword is answered without a RAG call, with
\* cache_hit, reason "bypassed" and the ctx and evidence of that first call
C4_WarmCallIsHit ==
    [][\A h \in Handlers :
          (/\ Starts(h)
           /\ last.wrote
           /\ hs'[h].user = last.user
           /\ hs'[h].keyword = last.keyword
           /\ clock - last.t <= CACHE_TTL_SECS) =>
              /\ hs'[h].pc = "done"
              /\ hs'[h].rag = <<>>
              /\ ~hs'[h].out.isError
              /\ hs'[h].out.data.cache_hit
              /\ hs'[h].out.data.cache_miss_reason = "bypassed"
              /\ hs'[h].out.data.ctx = last.ctx
              /\ hs'[h].out.text = last.ctx
              /\ hs'[h].out.data.evidence = last.evidence]_vars

C4_Witness ==
    \E h \in Handlers :
        /\ hs[h].pc = "done"
        /\ hs[h].rag = <<>>
        /\ hs[h].out.data.cache_hit
        /\ hs[h].out.data.cache_miss_reason = "bypassed"
        /\ hs[h].out.data.evidence # <<>>
        /\ hs[h].out.data.ctx # <<>>

C7_FallbackOnce ==
    \A h \in Handlers :
        LET H == hs[h]
            fallback ==
                IF \E i \in 1..Len(H.text) : H.text[i] \in {"bro", "cat"}
                THEN <<"bro", ",", "cat">> ELSE <<"bro", ",", "coax">>
        IN /\ Len(H.rag) <= 2
           /\ H.rag # <<>> => H.rag[1].kw = H.keyword
           /\ Len(H.rag) = 2 =>
                 /\ H.rag[1].st = "ok"
                 /\ SnippetEmpty(H.rag[1])
                 /\ H.rag[2].kw = fallback
                 /\ fallback # H.keyword
           /\ (Len(H.rag) = 1 /\ H.rag[1].st = "ok") =>
                 ~(SnippetEmpty(H.rag[1]) /\ fallback # H.keyword)
           /\ \A n \in 1..Len(H.rag) :
                 /\ H.rag[n].st = "raise" => (n = Len(H.rag) /\ H.pc = "done")
                 /\ H.rag[n].st = "pending" =>
                       (n = Len(H.rag) /\ H.pc \in {"primary", "fallback"})
           /\ (H.pc = "done" /\ H.rag # <<>> /\ H.exc = <<>>) =>
                 H.out.data.keyword_used =
                     IF Len(H.rag) = 2 /\ ~SnippetEmpty(H.rag[2])
                     THEN H.rag[2].kw ELSE H.keyword

C7_Witness ==
    \E h \in Handlers :
        /\ hs[h].pc = "done"
        /\ hs[h].exc = <<>>
        /\ Len(hs[h].rag) = 2
        /\ hs[h].out.data.keyword_used = hs[h].rag[2].kw
        /\ hs[h].out.data.keyword_used # hs[h].keyword

\* C8: what the client has received of a stream the upstream answered with
\* status < 400 is, line for line and in order, what the upstream sent up to
\* and including [DONE] (only a terminator the proxy adds itself may follow an
\* upstream that never sent one), and once the loop is over nothing of it is
\* missing
C8_ForwardedInOrder ==
    up_status < 400 =>
        /\ \/ IsPrefix(sent, UpToDone(up_lines))
           \/ /\ spc = "end"
              /\ ~HasDone(up_lines)
              /\ sent = up_lines \o <<BlankLine, DoneLine, BlankLine>>
        /\ spc \in {"post", "tail", "end"} => IsPrefix(UpToDone(up_lines), sent)

C8_Witness ==
    /\ spc = "end"
    /\ up_status < 400
    /\ Len(up_lines) = 3
    /\ up_lines[1].kind = "bad"
    /\ up_lines[2].kind = "done"
    /\ sent = SubSeq(up_lines, 1, 2)

\* C9 as stated: after a completed stream with status < 400 persistence was
\* invoked exactly once with the concatenated content of the forwarded data
\* frames (and the request's last user text) when that content is non-empty,
\* and not at all when it is empty
C9_PersistsConcatenation ==
    (up_status < 400 /\ spc \in {"tail", "end"}) =>
        persisted = IF ContentOf(sent) # <<>>
                    THEN <<[user_text |-> _last_user_text(req_msgs),
                            assistant_text |-> ContentOf(sent)]>>
                    ELSE <<>>

\* C9 amended: the text persisted is the concatenation stripped of leading and
\* trailing whitespace, and persistence is invoked (once) iff the stripped text
\* is non-empty
C9_PersistsStrippedConcatenation ==
    (up_status < 400 /\ spc \in {"tail", "end"}) =>
        persisted = IF Strip(ContentOf(sent)) # <<>>
                    THEN <<[user_text |-> _last_user_text(req_msgs),
                            assistant_text |-> Strip(ContentOf(sent))]>>
                    ELSE <<>>

C9_Witness ==
    /\ spc = "end"
    /\ up_status < 400
    /\ Len(persisted) = 1
    /\ persisted[1].assistant_text = <<"a", " ", "a">>
    /\ persisted[1].user_text = <<"json", "i">>

\* C10: a streaming response that ran to completion has delivered exactly one
\* [DONE] frame, and it is the last frame
C10_OneDoneLast ==
    spc = "end" =>
        /\ Len(SelectSeq(sent, IsDoneLine)) = 1
        /\ Frames(sent)[Len(Frames(sent))].kind = "done"

C10_Witness ==
    /\ spc = "end"
    /\ up_status < 400
    /\ ~HasDone(up_lines)
    /\ Len(up_lines) = 3
    /\ Frames(sent) = Frames(up_lines) \o <<DoneLine>>

\* C11: once the persistence call has started no frame is emitted to the
\* client any more (the stream has terminated before the turn is persisted)
C11_NoFrameAfterPersist == [][persisted # <<>> => sent' = sent]_vars

UpstreamAnswered ==
    \/ chat_req.stream /\ spc \in {"errdone", "stream", "post", "tail", "end"}
    \/ ~chat_req.stream /\ spc = "responded" /\ http_resp.kind = "json"
       /\ chat_req.msgs_is_list /\ chat_req.key_ok

HeaderNames(resp) == {h[1] : h \in resp.headers}
HeaderValues(resp, name) == {h[2] : h \in {g \in resp.headers : g[1] = name}}

\* C13: when the upstream answers with status s >= 400 the client's response
\* has HTTP status s, with and without streaming
C13_UpstreamStatusForwarded ==
    (UpstreamAnswered /\ up_status >= 400) => http_resp.status = up_status

\* C14: when the upstream answers with status >= 400 no turn is persisted,
\* with and without streaming
C14_NoPersistOnUpstreamError ==
    up_status >= 400 => persisted = <<>>

C14_Witness ==
    /\ up_status >= 400
    /\ ~chat_req.stream
    /\ spc = "responded"
    /\ http_resp.status = up_status
    /\ http_resp.headers # {}
    /\ up_json.content = <<"a">>

\* C20: every response of the route carries the six identity headers, and
\* x-session-id equals x-thread-id
C20_IdentityHeadersAlways ==
    http_resp.status # 0 =>
        /\ {"x-upstream-url", "x-thread-id", "x-memory-id", "x-agent-id",
            "x-s4-scope", "x-session-id"} \subseteq HeaderNames(http_resp)
        /\ HeaderValues(http_resp, "x-session-id")
               = HeaderValues(http_resp, "x-thread-id")

\* ---- helpers of the claims about /gateway_ctx
\* the request's messages, as the body lists them
BodyMsgs == rpc_req.msgs

Responded == rpc_resp.status # 0

\* the places of the body's messages that have an id
WithId == {j \in 1..Len(BodyMsgs) : BodyMsgs[j].dict /\ BodyMsgs[j].has_id}

ElemIdx(elems) == {elems[k].idx : k \in 1..Len(elems)}

Increasing(elems) ==
    \A k \in 1..(Len(elems) - 1) : elems[k].idx < elems[k + 1].idx

\* C15: a message without an id never produces a response element: the results
\* collected are, one each, those of the handled messages that have an id; a
\* notification handled alone gives no body, and the array of a batch has one
\* element per message with an id and none for the others
C15_NotificationsUnanswered ==
    /\ ElemIdx(rpc_results) = {j \in WithId : j <= rpc_i}
    /\ Len(rpc_results) = Cardinality(ElemIdx(rpc_results))
    /\ (Responded /\ rpc_req.kind = "single" /\ WithId = {}) =>
           (rpc_resp.body = "none" /\ rpc_resp.elems = <<>>)
    /\ (Responded /\ rpc_req.kind = "batch") =>
           /\ ElemIdx(rpc_resp.elems) = WithId
           /\ Len(rpc_resp.elems) = Cardinality(WithId)

C15_Witness ==
    /\ Responded
    /\ rpc_req.kind = "batch"
    /\ Len(BodyMsgs) = 2
    /\ BodyMsgs[1].method = "tools/call" /\ BodyMsgs[1].name_ok
    /\ ~BodyMsgs[1].has_id
    /\ BodyMsgs[2].has_id
    /\ Len(rpc_resp.elems) = 1
    /\ started = 1

\* C16: a POST that consists of notifications only (one, or a batch of them)
\* is answered 204 without a body; every other POST of messages is answered
\* with a JSON object or array
C16_PureNotifications204 ==
    (Responded /\ rpc_req.kind \in {"single", "batch"} /\ BodyMsgs # <<>>
     /\ \A j \in 1..Len(BodyMsgs) : BodyMsgs[j].dict) =>
        IF WithId = {}
        THEN rpc_resp.status = 204 /\ rpc_resp.body = "none"
        ELSE rpc_resp.body \in {"object", "array"}

\* C17: the messages of a batch are handled one after another in array order:
\* a message is taken up only when no other is in flight and it is the next
\* of the array, and the response lists the results in array order
C17_BatchInOrder ==
    /\ [][(started' # started \/ (rpc_i' # rpc_i /\ hs' = hs)) =>
            /\ \A h \in Handlers : hs[h].pc = "idle"
            /\ rpc_i < Len(RpcMessages(rpc_req))
            /\ started' # started =>
                 /\ RpcMessages(rpc_req)[rpc_i + 1].method = "tools/call"
                 /\ \E h \in Handlers :
                      /\ hs'[h].pc # "idle"
                      /\ hs'[h].notif = ~RpcMessages(rpc_req)[rpc_i + 1].has_id]_vars
    /\ [][rpc_i' # rpc_i => rpc_i' = rpc_i + 1]_vars
    /\ [](/\ Increasing(rpc_results)
          /\ \A k \in 1..Len(rpc_results) : rpc_results[k].idx <= rpc_i
          /\ (Responded /\ rpc_req.kind = "batch") =>
                (rpc_resp.elems = rpc_results /\ rpc_i = Len(BodyMsgs)))

C17_Witness ==
    /\ Responded
    /\ rpc_req.kind = "batch"
    /\ Len(rpc_resp.elems) = 2
    /\ rpc_resp.elems[1].idx = 1
    /\ rpc_resp.elems[1].what = "tools/call"
    /\ ~rpc_resp.elems[1].out.data.cache_hit
    /\ rpc_resp.elems[2].idx = 2
    /\ rpc_resp.elems[2].out.data.cache_hit

\* C18: the version a message negotiates is its params.protocolVersion if
\* supported, else the request header if supported, else the default, always
\* a supported one; the response header carries a supported version, and it
\* equals the protocolVersion of every initialize result of the body
C18_HeaderIsNegotiatedVersion ==
    /\ \A k \in 1..Len(rpc_results) :
          rpc_results[k].what = "initialize" =>
              LET msg == RpcMessages(rpc_req)[rpc_results[k].idx]
              IN /\ rpc_results[k].pv \in SUPPORTED_VERSIONS
                 /\ rpc_results[k].pv =
                       IF msg.pv \in SUPPORTED_VERSIONS THEN msg.pv
                       ELSE IF rpc_req.hv \in SUPPORTED_VERSIONS THEN rpc_req.hv
                       ELSE "2025-06-18"
    /\ Responded =>
          /\ rpc_resp.header_pv \in SUPPORTED_VERSIONS
          /\ \A k \in 1..Len(rpc_resp.elems) :
                rpc_resp.elems[k].what = "initialize" =>
                    rpc_resp.header_pv = rpc_resp.elems[k].pv

\* C19: a message with an unknown method, or a tools/call of another tool, is
\* answered with error -32601 and a body that is not JSON with error -32700;
\* handling them makes no RAG call and leaves the cache as it was
C19_ErrorsWithoutEffect ==
    /\ [][(rpc_i' = rpc_i + 1 /\ rpc_i < Len(RpcMessages(rpc_req))) =>
            LET msg == RpcMessages(rpc_req)[rpc_i + 1]
            IN (/\ msg.dict
                /\ msg.has_id
                /\ \/ msg.method \notin {"initialize", "tools/list", "tools/call"}
                   \/ msg.method = "tools/call" /\ ~msg.name_ok) =>
                   /\ Len(rpc_results') = Len(rpc_results) + 1
                   /\ rpc_results'[Len(rpc_results')].kind = "error"
                   /\ rpc_results'[Len(rpc_results')].code = -32601
                   /\ rpc_results'[Len(rpc_results')].idx = rpc_i + 1
                   /\ cache' = cache
                   /\ started' = started
                   /\ hs' = hs]_vars
    /\ [](\A k \in 1..Len(rpc_results) :
             LET msg == RpcMessages(rpc_req)[rpc_results[k].idx]
             IN (msg.method \notin {"initialize", "tools/list", "tools/call"}
                 \/ (msg.method = "tools/call" /\ ~msg.name_ok)) =>
                    (rpc_results[k].kind = "error" /\ rpc_results[k].code = -32601))
    /\ []((Responded /\ rpc_req.kind = "garbage") =>
             /\ Len(rpc_resp.elems) = 1
             /\ rpc_resp.elems[1].kind = "error"
             /\ rpc_resp.elems[1].code = -32700
             /\ cache = <<>>
             /\ started = 0)

C19_Witness ==
    /\ Responded
    /\ rpc_req.kind = "batch"
    /\ Len(rpc_resp.elems) = 2
    /\ rpc_resp.elems[1].what = "tools/call"
    /\ rpc_resp.elems[2].kind = "error"
    /\ rpc_resp.elems[2].code = -32601
    /\ BodyMsgs[2].method = "tools/call"
    /\ Len(cache) = 1
    /\ started = 1

\* ---- helpers of the claims about keywords
\* the parts of a normalized keyword
PartsOf(k) == IF k = <<>> THEN <<>> ELSE Split(k, ",")

\* the parts a keyword string is made of: separators unified, split on ",",
\* trimmed, empties dropped
InputParts(k) ==
    LET u == [i \in 1..Len(k) |-> IF k[i] = ";" THEN "," ELSE k[i]]
    IN SelectSeq(MapStrip(Split(u, ",")), NonEmptyPart)

FirstPos(parts, p) == CHOOSE i \in 1..Len(parts) : parts[i] = p /\ \A j \in 1..(i - 1) : parts[j] # p

\* the response of the handler that has returned
KwResponse(h) == hs[h].out.data

\* C23: a supplied keyword that is not empty and not garbled is the primary
\* keyword whatever the text; a missing or garbled one is replaced by the
\* keyword derived from the text, and if that is empty by the emotional
\* fallback when the text has an emotional marker, else the neutral one;
\* keyword_primary of the response is the normalized resolved keyword
C23_KeywordResolution ==
    \A h \in Handlers :
        hs[h].pc = "done" =>
            LET keyword == Strip(kw_arg)
                text == Strip(kw_text)
                derived == _derive_kw_from_text(text)
                resolved ==
                    IF keyword # <<>> /\ ~_looks_garbled_keyword(keyword) THEN keyword
                    ELSE IF derived # <<>> THEN derived
                    ELSE IF \E i \in 1..Len(text) : text[i] \in EmoMarkers
                    THEN FallbackEmo
                    ELSE FallbackNeutral
            IN /\ KwResponse(h).keyword_primary = _normalize_kw(resolved)
               /\ hs[h].rag[1].kw = KwResponse(h).keyword_primary

C23_Witness ==
    \E h \in Handlers :
        /\ hs[h].pc = "done"
        /\ kw_arg = <<"k", "?">>
        /\ kw_text = <<"y", "w", "y">>
        /\ KwResponse(h).keyword_primary = <<"y", ",", "w">>

\* C24: _normalize_kw applied to its own result gives that result again; the
\* result has no empty part and no repeated part, and its parts are the parts
\* of the keyword in the order of their first occurrence
C24_NormalizeIdempotent ==
    kw_pc = "done" =>
        LET parts == PartsOf(kw_norm.once)
            inp == InputParts(kw_arg)
        IN /\ kw_norm.twice = kw_norm.once
           /\ \A i \in 1..Len(parts) : parts[i] # <<>> /\ Strip(parts[i]) = parts[i]
           /\ \A i, j \in 1..Len(parts) : i # j => parts[i] # parts[j]
           /\ {parts[i] : i \in 1..Len(parts)} = {inp[i] : i \in 1..Len(inp)}
           /\ \A i, j \in 1..Len(parts) :
                 i < j => FirstPos(inp, parts[i]) < FirstPos(inp, parts[j])

C24_Witness ==
    /\ kw_pc = "done"
    /\ kw_arg = <<"w", ";", "w">>
    /\ kw_norm.once = <<"w">>

\* C30: of the evidence _postprocess_candidates returns, no two records have
\* the same (source_id, chunk_id) and no two have texts whose token sets have
\* a Jaccard similarity above 0.9
C30_DedupComplete ==
    pp_pc = "done" =>
        \A i, j \in 1..Len(pp_out) :
            i < j =>
                /\ KeyOfCand(pp_out[i]) # KeyOfCand(pp_out[j])
                /\ ~Over09(_jaccard_similarity(_tokenize_for_jaccard(pp_out[i].text),
                                               _tokenize_for_jaccard(pp_out[j].text)))

\* ---- helpers of the claims about concurrent handlers
\* the handler is suspended in a RAG call
InFlight(h) == hs[h].pc \in {"primary", "fallback"}

\* the handler returns in this step
Returns(h) == hs[h].pc # "done" /\ hs'[h].pc = "done"

\* C27: whatever the interleaving of the handlers, the cache is read, probed,
\* written and evicted inside single steps: it changes only in a step in which
\* one handler returns and no other handler moves; it is never above its cap
\* and never holds a key twice; every entry holds the snippet and the result
\* of one write; and a hit answers with the snippet, result snippet and
\* evidence of one entry
C27_CacheStepsAtomic ==
    /\ [][cache' # cache =>
            \E h \in Handlers :
                /\ Returns(h)
                /\ \A g \in Handlers : g # h => hs'[g] = hs[g]]_vars
    /\ [](/\ Len(cache) <= MAX_CACHE_SIZE
          /\ \A i, j \in 1..Len(cache) : cache[i].key = cache[j].key => i = j
          /\ \A i \in 1..Len(cache) :
                /\ cache[i].res.ctx = cache[i].ctx
                /\ cache[i].res.error = <<>>
                /\ cache[i].t <= clock)
    /\ [][\A h \in Handlers :
            (Starts(h) /\ hs'[h].pc = "done") =>
                \E i \in 1..Len(cache) :
                    /\ cache[i].key = KeyOf(hs'[h])
                    /\ hs'[h].out.text = cache[i].ctx
                    /\ hs'[h].out.data.ctx = cache[i].ctx
                    /\ hs'[h].out.data.evidence = cache[i].res.evidence]_vars

C27_Witness ==
    \E h, g \in Handlers :
        /\ hs[h].pc = "done"
        /\ last.wrote
        /\ last.ctx # <<>>
        /\ InFlight(g)
        /\ KeyOf(hs[g]) = KeyOf(hs[h])
        /\ Len(cache) = 1

\* C28: when a call that found its entry stale (now - stored_at > TTL) has
\* returned, no stale entry is left under its key, whether the call wrote a
\* new entry or failed (the clock only moves forward, so the entry that was
\* stale at the read is stale at the return)
C28_StaleEvictedByRead ==
    \A h \in Handlers :
        (hs[h].pc = "done" /\ hs[h].reason = "expired") =>
            \A i \in 1..Len(cache) :
                cache[i].key = KeyOf(hs[h]) => TtlFresh(clock, cache[i].t)

\* C21: a tools/call made while the RAG API key is missing makes one RAG call
\* attempt, writes nothing to the cache, and its HTTP response is a 500
C21_MissingKeyIs500 ==
    /\ \A h \in Handlers :
          (hs[h].pc = "done" /\ hs[h].exc = MissingKey) =>
              (Len(hs[h].rag) = 1 /\ ~last.wrote)
    /\ (Responded /\ \E k \in 1..Len(rpc_resp.elems) :
                        rpc_resp.elems[k].out.data.error = MissingKey) =>
           rpc_resp.status = 500

\* ---- helpers of the claim about DB sessions
\* the sessions open after the first k events of the log
OpenAfter(log, k) ==
    Cardinality({i \in 1..k : log[i] = "open"})
    - Cardinality({i \in 1..k : log[i] = "close"})

Waits == {"wait_ctx", "wait_upstream"}

\* C29: every DB session opened while a chat completion is handled is closed,
\* whatever the exit path; no session is open while the handler waits on the
\* context builder or on the upstream; and a session opened after the
\* summary-read session is opened only when the upstream has been read to its
\* end
C29_SessionsClosed ==
    /\ OpenAfter(db_log, Len(db_log)) = 0
    /\ \A k \in 1..Len(db_log) :
          /\ OpenAfter(db_log, k) \in {0, 1}
          /\ db_log[k] \in Waits => OpenAfter(db_log, k) = 0
          /\ (db_log[k] = "open" /\ \E i \in 1..(k - 1) : db_log[i] = "open") =>
                \A j \in (k + 1)..Len(db_log) : db_log[j] \notin Waits
    /\ (spc \notin {"request", "off"} /\ chat_req.msgs_is_list) =>
          (db_log # <<>> /\ db_log[1] = "open")
    /\ persisted # <<>> =>
          Cardinality({i \in 1..Len(db_log) : db_log[i] = "open"}) = 2

C29_Witness ==
    /\ chat_req.stream
    /\ spc = "failed"
    /\ persisted # <<>>
    /\ Len(sent) >= 2
    /\ Cardinality({i \in 1..Len(db_log) : db_log[i] = "close"}) = 2

\* ---- helper of the claim about clean text
CleanText(t) == CountIn(t, Markers) = 0 /\ _ctrl_char_count(t) = 0

\* C25: the mojibake repair returns a text that holds no mojibake marker and
\* no C1 control character unchanged, whatever the recode search found
C25_CleanTextUnchanged ==
    (mj_pc = "done" /\ CleanText(mj_in)) => mj_out = mj_in

\* a clean text for which the search found a candidate of a greater key
C25_Witness ==
    /\ mj_pc = "done"
    /\ CleanText(mj_in)
    /\ BestOf(mj_in) # {_strip_ctrl(mj_in)}
    /\ mj_out = mj_in

\* ---- helpers of the claims about the summary tables
IdempotencyKey(r) ==
    <<r.session_id, r.scope_type, r.thread_id, r.memory_id, r.agent_id, r.to_turn>>

NoTwoRows(table) ==
    \A i, j \in 1..Len(table) :
        IdempotencyKey(table[i]) = IdempotencyKey(table[j]) => i = j

\* C22: neither summary table ever holds two rows with the same
\* (session_id, scope_type, thread_id, memory_id, agent_id, to_turn)
C22_NoDuplicateSummaryRow ==
    NoTwoRows(summaries_s4) /\ NoTwoRows(summaries_s60)

\* C26: a summarizer answer that does not parse as JSON does not make run_s4
\* or run_s60 raise; the row they insert holds the default schema
C26_ParseFailureGivesDefault ==
    sum_last.llm \in {"bad_body", "bad_content"} =>
        /\ sum_last.outcome = "inserted"
        /\ Len(sum_last.summary) = 1
        /\ sum_last.summary[1] = _default_summary_schema

\* C31: every candidate that does not survive the two dedup stages is in the
\* meta.duplicates list of exactly one record that does
C31_NoMergedRecordLost ==
    pp_pc = "done" =>
        LET deduped == Deduped(Scored(pp_in))
            Holders(id) == {k \in 1..Len(deduped) :
                               \E p \in 1..Len(deduped[k].dups) :
                                   deduped[k].dups[p].id = id}
        IN \A i \in 1..Len(pp_in) :
              (\A k \in 1..Len(deduped) : deduped[k].id # i) =>
                  Cardinality(Holders(i)) = 1

\* ---- helper of the claim about the ranking
RankKey(ev) == <<ev.score_final, ev.source_priority, ev.recency>>

\* C32: the evidence _score_and_rank_candidates returns has at most top_n
\* records, no record is ranked below a record of a smaller (score_final,
\* source_priority, recency), and no record lists a duplicate of a higher
\* score_final than its own
C32_RankedTopN ==
    pp_pc = "done" =>
        /\ Len(pp_out) <= RETRIEVAL_TOP_N
        /\ \A i, j \in 1..Len(pp_out) :
              i < j => ~KeyLt(RankKey(pp_out[i]), RankKey(pp_out[j]))
        /\ \A i \in 1..Len(pp_out) : \A p \in 1..Len(pp_out[i].dups) :
              ~FLt(pp_out[i].score_final, pp_out[i].dups[p].score_final)

\* C33: whatever the interleaving of the handlers, no state holds a cache of
\* more than MAX entries, and the entry a call wrote is in the cache when the
\* call has returned: its own eviction removed another entry, also when that
\* entry has the same stored-at
C33_WriteSurvivesEviction ==
    /\ Len(cache) <= MAX_CACHE_SIZE
    /\ last.wrote =>
          \E i \in 1..Len(cache) :
              /\ cache[i].key = CacheKey(last.user, last.keyword)
              /\ cache[i].t = last.t
              /\ cache[i].ctx = last.ctx

\* the second of two concurrent calls wrote at the stored-at of the entry its
\* write evicted
C33_Witness ==
    /\ hs[2].pc = "done"
    /\ last.wrote
    /\ last.t = 0
    /\ clock = 0
    /\ evictions = 1
    /\ cache[1].key = KeyOf(hs[2])

\* C34: a call answered from the cache leaves the stored-at and the snippet of
\* every entry as they were, and a stored-at changes only in the step of a
\* write for that key, to the time of the write; so the entry a hit answers
\* from was written at most TTL before the call, and the answer is the
\* snippet of that write
C34_HitKeepsStoredAt ==
    /\ [][\A h \in Handlers :
            (Starts(h) /\ hs'[h].pc = "done" /\ hs'[h].out.data.cache_hit) =>
                /\ Len(cache') = Len(cache)
                /\ \A i \in 1..Len(cache) :
                      /\ cache'[i].key = cache[i].key
                      /\ cache'[i].t = cache[i].t
                      /\ cache'[i].ctx = cache[i].ctx
                      /\ cache[i].key = KeyOf(hs'[h]) =>
                            /\ clock - cache[i].t <= CACHE_TTL_SECS
                            /\ hs'[h].out.text = cache[i].ctx]_vars
    /\ [][\A i \in 1..Len(cache) : \A j \in 1..Len(cache') :
            (cache'[j].key = cache[i].key /\ cache'[j].t # cache[i].t) =>
                /\ cache'[j].t = clock
                /\ \E h \in Handlers : EndsMiss(h) /\ KeyOf(hs[h]) = cache[i].key]_vars

\* a call was answered from an entry of age TTL
C34_Witness ==
    \E h \in Handlers : \E i \in 1..Len(cache) :
        /\ hs[h].pc = "done"
        /\ hs[h].out.data.cache_hit
        /\ cache[i].key = KeyOf(hs[h])
        /\ cache[i].res.cache_hit
        /\ clock - cache[i].t = CACHE_TTL_SECS

\* C35: a call answered from the cache is answered with the snippet of an
\* entry that a call of the same user and the same normalized keyword stored,
\* and a call finds the miss reason "profile_changed" only when the cache holds
\* an entry stored for its user and keyword; also for users and keywords that
\* contain "||"
C35_NoLeakAcrossIdentities ==
    [][\A h \in Handlers : Starts(h) =>
          LET mine == {i \in 1..Len(cache) :
                          cache[i].by = <<hs'[h].user, hs'[h].keyword>>}
          IN /\ (hs'[h].pc = "done" /\ hs'[h].out.data.cache_hit) =>
                    \E i \in mine : hs'[h].out.text = cache[i].ctx
             /\ hs'[h].reason = "profile_changed" => mine # {}]_vars

\* C36: whatever the keyword and text arguments of a tools/call, the primary
\* keyword of the call is not empty: not in its cache key, not in its first
\* RAG call
C36_PrimaryKeywordNonEmpty ==
    \A h \in Handlers :
        hs[h].pc # "idle" =>
            /\ hs[h].keyword # <<>>
            /\ hs[h].rag # <<>> => hs[h].rag[1].kw # <<>>
            /\ \A i \in 1..Len(cache) : cache[i].by[2] # <<>>

\* ---- helpers of the claims about the answered tool calls
\* the tool_call_ids of the tool messages from place i up to the next message
\* that is no tool message (list elements that are no objects are passed over)
RECURSIVE ToolRun(_, _)
ToolRun(msgs, i) ==
    IF i > Len(msgs) THEN {}
    ELSE IF ~msgs[i].dict THEN ToolRun(msgs, i + 1)
    ELSE IF StripRole(msgs[i].role) = "tool"
    THEN {msgs[i].tcid} \cup ToolRun(msgs, i + 1)
    ELSE {}

\* every call id of the message at place i is answered in the run after it
AllAnswered(msgs, i) == CallIds(msgs[i].tc) \subseteq ToolRun(msgs, i + 1)

\* the assistant messages of the input that the sanitizer does not drop
KeptAssistants(msgs) ==
    {i \in 1..Len(msgs) :
        /\ msgs[i].dict
        /\ StripRole(msgs[i].role) = "assistant"
        /\ \/ msgs[i].has_tc
           \/ ~msgs[i].fc
           \/ ~(msgs[i].ctype = "none"
                \/ (msgs[i].ctype = "str" /\ Strip(msgs[i].content) = <<>>))}

\* the k-th element of a set of numbers
Nth(S, k) == CHOOSE x \in S : Cardinality({y \in S : y < x}) = k - 1

\* C37: of the sanitized list, every message that carries tool_calls is an
\* assistant message whose call ids are all answered by the tool messages
\* between it and the next message that is no tool message; the assistant
\* messages are those of the input in their order, unchanged when they carry
\* no tool_calls or all their calls are answered in the input, and otherwise
\* without tool_calls and without function_call
C37_ToolCallsAnswered ==
    san_pc = "done" =>
        LET ins == KeptAssistants(san_in)
            outs == {j \in 1..Len(san_out) : StripRole(san_out[j].role) = "assistant"}
        IN /\ \A j \in 1..Len(san_out) :
                 san_out[j].has_tc =>
                     /\ StripRole(san_out[j].role) = "assistant"
                     /\ AllAnswered(san_out, j)
           /\ Cardinality(ins) = Cardinality(outs)
           /\ \A k \in 1..Cardinality(ins) :
                 LET m == san_in[Nth(ins, k)]
                     m2 == san_out[Nth(outs, k)]
                 IN IF ~m.has_tc \/ AllAnswered(san_in, Nth(ins, k))
                    THEN m2 = m
                    ELSE m2 = [m EXCEPT !.has_tc = FALSE, !.tc = <<>>, !.fc = FALSE]

\* C38: the sanitizer applied to its own result gives that result again
C38_SanitizeIdempotent ==
    san_pc = "done" => _sanitize_messages_for_upstream(san_out) = san_out

\* C39: the anchor block of the upstream request wraps a retrieved snippet
\* only: when the tool result of the context builder has isError = true, no
\* anchor block is built from it
C39_NoAnchorFromError ==
    an_pc = "done" =>
        /\ an_result[1].isError => anchor_block = <<>>
        /\ anchor_block # <<>> =>
              anchor_block = _build_anchor_system_block(an_result[1].data.ctx)

\* C40: two run_s4 calls, or two run_s60 calls, for the same session, scope
\* and to_turn that run in DB sessions of their own do not both insert a row
C40_AtMostOneInsert ==
    \A p, q \in Procs :
        (/\ p # q
         /\ callers[p].outcome = "inserted"
         /\ callers[q].outcome = "inserted"
         /\ callers[p].level = callers[q].level
         /\ callers[p].scope_type = callers[q].scope_type
         /\ callers[p].thread_id = callers[q].thread_id
         /\ callers[p].memory_id = callers[q].memory_id
         /\ callers[p].agent_id = callers[q].agent_id)
            => callers[p].msgs[Len(callers[p].msgs)].turn_id
                   # callers[q].msgs[Len(callers[q].msgs)].turn_id

====
